---- MODULE Spec2Model ----
(***************************************************************************)
(* W-OTS+ (lentus/wotsp): parameter resolution, base-w digits, checksum,   *)
(* the hash-chain kernel, the chain scheduler and the four primitives      *)
(* GenPublicKey, Sign, PublicKeyFromSig and Verify.                        *)
(*                                                                         *)
(* The 256-bit hash is an external primitive.  It is modelled as a free    *)
(* (collision-free) term algebra: the output of PRF is the record of its   *)
(* inputs, and one chain step F(key, out XOR mask) extends the term of     *)
(* `out` by the pair (key, mask).  A 32-byte block is                      *)
(*   [org |-> where the bytes come from, run |-> the steps applied to it]  *)
(* where `run` is stored run-length encoded: a segment [key, mask, n]      *)
(* stands for n consecutive steps whose PRF inputs are those of the first  *)
(* step with the hash-index field increased by 0, 1, ..., n-1.  The        *)
(* encoding is canonical, so two blocks are equal iff their terms are.     *)
(*                                                                         *)
(* An address is the record of its seven big-endian fields.  A key or a    *)
(* signature is a sequence of 32-byte blocks; a message is a sequence of   *)
(* bytes.                                                                  *)
(***************************************************************************)
EXTENDS Integers, Sequences, FiniteSets, TLC

N == 32

W16 == 0
W4 == 1
W256 == 2

\* the exported sizes, in bytes, of keys and signatures
W4PublicKeyBytes == 4256
W4Bytes == 4256
W16PublicKeyBytes == 2144
W16Bytes == 2144
W256PublicKeyBytes == 1088
W256Bytes == 1088

\* ---------------------------------------------------------------------------
\* bounds of the model
MaxConc == 2        \* Opts.Concurrency is drawn from -1..MaxConc and BigConc
BigConc == 134      \* a worker count above every l
MaxProcs == 2       \* runtime.NumCPU() and runtime.GOMAXPROCS(-1) are in 1..MaxProcs
MaxFlipBit == 1     \* a run may flip the first and the last MaxFlipBit + 1 bits of msg
MaxFlipBlk == 2     \* ... and a bit in the first and the last MaxFlipBlk blocks
MaxRoutines == 2    \* the goroutines of a call are interleaved for 1 .. MaxRoutines of them

\* ---------------------------------------------------------------------------
\* Go integer arithmetic

\* Go's integer division truncates toward zero (b > 0)
GoDiv(a, b) == IF a >= 0 THEN a \div b ELSE -((-a) \div b)

uint8(x) == x % 256
uint16(x) == x % 65536
\* every uint32 of the program (the checksum, an address field) is computed
\* from non-negative values and stays below 2^31, where uint32 changes nothing
uint32(x) == x

RECURSIVE Pow2(_)
Pow2(k) == IF k = 0 THEN 1 ELSE 2 * Pow2(k - 1)

\* ---------------------------------------------------------------------------
\* params.go: Mode.params

\* the zero value of the params struct
ZeroParams == [w |-> 0, logW |-> 0, l1 |-> 0, l2 |-> 0, l |-> 0]

\* params with the W256 row mistyped (l1 of the W16 row)
paramsW256Row(m) ==
    LET set(w, logW, l1, l2) ==
            [p |-> [w |-> w, logW |-> logW, l1 |-> l1, l2 |-> l2, l |-> l1 + l2],
             err |-> FALSE]
    IN  CASE m = W4   -> set(4, 2, 128, 5)
          [] m = W16  -> set(16, 4, 64, 3)
          [] m = W256 -> set(256, 8, 64, 2)
          [] OTHER    -> [p |-> ZeroParams, err |-> TRUE]

\* params with the rows of W16 and W4 exchanged (W4 declared first)
paramsRowsSwapped(m) ==
    LET set(w, logW, l1, l2) ==
            [p |-> [w |-> w, logW |-> logW, l1 |-> l1, l2 |-> l2, l |-> l1 + l2],
             err |-> FALSE]
    IN  CASE m = W16  -> set(4, 2, 128, 5)
          [] m = W4   -> set(16, 4, 64, 3)
          [] m = W256 -> set(256, 8, 32, 2)
          [] OTHER    -> [p |-> ZeroParams, err |-> TRUE]

params(m) ==
    LET set(w, logW, l1, l2) ==
            [p |-> [w |-> w, logW |-> logW, l1 |-> l1, l2 |-> l2, l |-> l1 + l2],
             err |-> FALSE]
    IN  CASE m = W4   -> set(4, 2, 128, 5)
          [] m = W16  -> set(16, 4, 64, 3)
          [] m = W256 -> set(256, 8, 32, 2)
          [] OTHER    -> [p |-> ZeroParams, err |-> TRUE]

\* ---------------------------------------------------------------------------
\* opts.go

canPrecompute == {"SHA256", "SHA512_256", "BLAKE2b_256", "BLAKE2s_256"}

\* Opts.hash: crypto.Hash(0) is written "0"; the error result carries hash 0
hash(o) ==
    IF o.Hash = "0" THEN [h |-> "SHA256", err |-> FALSE]
    ELSE IF o.Hash \in canPrecompute THEN [h |-> o.Hash, err |-> FALSE]
    ELSE [h |-> "0", err |-> TRUE]

\* Opts.routines taking the higher of the runtime's two answers
routinesHigher(o, procs, cpus) ==
    IF o.Concurrency = 0 THEN 1
    ELSE IF o.Concurrency > 0 THEN o.Concurrency
    ELSE IF procs > cpus THEN procs ELSE cpus

\* Opts.routines; procs = runtime.GOMAXPROCS(-1), cpus = runtime.NumCPU()
routines(o, procs, cpus) ==
    IF o.Concurrency = 0 THEN 1
    ELSE IF o.Concurrency > 0 THEN o.Concurrency
    ELSE IF procs > cpus THEN cpus ELSE procs

\* ---------------------------------------------------------------------------
\* address: the seven big-endian fields of the 32 bytes

ZeroAddress == [layer |-> 0, tree |-> 0, type |-> 0, ots |-> 0,
                chain |-> 0, hash |-> 0, km |-> 0]

\* setChain that leaves the field as it is
setChainSkipped(a, c) == a

setChain(a, c) == [a EXCEPT !.chain = uint32(c)]
setHash(a, h) == [a EXCEPT !.hash = uint32(h)]
setKeyAndMask(a, km) == [a EXCEPT !.km = uint32(km)]

\* ---------------------------------------------------------------------------
\* hasher.go: the keyed-hash engine

\* newHasher: crypto.Hash.New() panics for a hash that is not available, and
\* hash 0 (the value returned next to the error) never is
newHasher(privSeed, pubSeed, opts, nrRoutines) ==
    LET hf == hash(opts).h
    IN  [panic |-> hf = "0",
         params |-> params(opts.Mode).p,
         hashFunc |-> hf,
         priv |-> privSeed,
         pub |-> pubSeed,
         nr |-> nrRoutines]

\* PRF outputs, as terms
prfPubSeed(h, addr) == [t |-> "prfPub", hf |-> h.hashFunc, seed |-> h.pub, in |-> addr]
prfPrivSeed(h, ctr) == [t |-> "prfPriv", hf |-> h.hashFunc, seed |-> h.priv, in |-> ctr]

\* a 32-byte block that is the output of a PRF, of a make(), or caller data
Block(org) == [org |-> org, run |-> <<>>]
ZeroBlock == Block([t |-> "zero"])

\* the PRF output whose address has its hash index increased by k
Shift(prf, k) == [prf EXCEPT !.in = [@ EXCEPT !.hash = @ + k]]

\* one chain step: inout <- F(key, inout XOR mask), as a term
hashF(h, key, mask, inout) ==
    LET r == inout.run
        n == Len(r)
    IN  IF n > 0 /\ key = Shift(r[n].key, r[n].n) /\ mask = Shift(r[n].mask, r[n].n)
        THEN [inout EXCEPT !.run = [r EXCEPT ![n] = [@ EXCEPT !.n = @ + 1]]]
        ELSE [inout EXCEPT !.run = Append(r, [key |-> key, mask |-> mask, n |-> 1])]

\* n consecutive chain steps whose PRF outputs are key, mask with the hash
\* index increased by 0 .. n-1: hashF iterated n times
hashFTimes(h, key, mask, inout, n) ==
    LET r == inout.run
        m == Len(r)
    IN  IF n = 0 THEN inout
        ELSE IF m > 0 /\ key = Shift(r[m].key, r[m].n) /\ mask = Shift(r[m].mask, r[m].n)
        THEN [inout EXCEPT !.run = [r EXCEPT ![m] = [@ EXCEPT !.n = @ + n]]]
        ELSE [inout EXCEPT !.run = Append(r, [key |-> key, mask |-> mask, n |-> n])]

\* baseW, the loop for consumed := first; consumed <= last; consumed++ run on
\* the loop state st = [panic, d, in, bits, total]; reading x[in] past the end
\* of x panics (the range is evaluated by halves to keep the evaluation flat)
RECURSIVE baseWLoop(_, _, _, _, _)
baseWLoop(p, x, first, last, st) ==
    IF first > last \/ st.panic THEN st
    ELSE IF first = last
    THEN IF st.bits = 0 /\ st.in >= Len(x) THEN [st EXCEPT !.panic = TRUE]
         ELSE LET total == IF st.bits = 0 THEN x[st.in + 1] ELSE st.total
                  in    == IF st.bits = 0 THEN st.in + 1 ELSE st.in
                  bits  == (IF st.bits = 0 THEN 8 ELSE st.bits) - p.logW
                  \* (total >> bits) & byte(w-1): the mask is 2^k - 1, so & is mod 2^k
                  digit == (total \div Pow2(bits)) % (uint8(p.w - 1) + 1)
              IN  [panic |-> FALSE, d |-> Append(st.d, digit),
                   in |-> in, bits |-> bits, total |-> total]
    ELSE LET mid == (first + last) \div 2
         IN  baseWLoop(p, x, mid + 1, last, baseWLoop(p, x, first, mid, st))

\* baseW leaving the last digit out
baseWOneShort(p, x, outLen) ==
    baseWLoop(p, x, 0, outLen - 2,
              [panic |-> FALSE, d |-> <<>>, in |-> 0, bits |-> 0, total |-> 0])

\* baseW: the outLen digits of x, most significant first
baseW(p, x, outLen) ==
    baseWLoop(p, x, 0, outLen - 1,
              [panic |-> FALSE, d |-> <<>>, in |-> 0, bits |-> 0, total |-> 0])

\* checksum, the loop csum += uint32(uint8(w-1) - msg[i]) for i in first..last
RECURSIVE csumLoop(_, _, _, _)
csumLoop(p, msg, first, last) ==
    IF first > last THEN 0
    ELSE IF first = last THEN uint32(uint8(uint8(p.w - 1) - msg[first + 1]))
    ELSE LET mid == (first + last) \div 2
         IN  uint32(csumLoop(p, msg, first, mid) + csumLoop(p, msg, mid + 1, last))

checksum(p, msg) ==
    LET csum    == csumLoop(p, msg, 0, p.l1 - 1)
        shifted == uint32(csum * Pow2(8 - ((p.l2 * p.logW) % 8)))
        c16     == uint16(shifted)
        csumBytes == <<c16 \div 256, c16 % 256>>
    IN  baseW(p, csumBytes, p.l2).d

\* chain with the two PRF outputs taken the other way round: the bitmask
\* from key-and-mask 0 and the key from key-and-mask 1
chainMaskFirst(h, in, start, steps, adrs) ==
    LET bound == uint8(start + steps)
        n     == IF bound > start THEN bound - start ELSE 0
        key   == prfPubSeed(h, setKeyAndMask(setHash(adrs, start), 1))
        mask  == prfPubSeed(h, setKeyAndMask(setHash(adrs, start), 0))
    IN  IF n = 0 THEN [out |-> in, adrs |-> adrs]
        ELSE [out  |-> hashFTimes(h, key, mask, in, n),
              adrs |-> setKeyAndMask(setHash(adrs, bound - 1), 1)]

\* chain with the loop bound included (i <= start+steps)
chainInclusive(h, in, start, steps, adrs) ==
    LET bound == uint8(start + steps)
        n     == IF bound >= start THEN bound - start + 1 ELSE 0
        key   == prfPubSeed(h, setKeyAndMask(setHash(adrs, start), 0))
        mask  == prfPubSeed(h, setKeyAndMask(setHash(adrs, start), 1))
    IN  IF n = 0 THEN [out |-> in, adrs |-> adrs]
        ELSE [out  |-> hashFTimes(h, key, mask, in, n),
              adrs |-> setKeyAndMask(setHash(adrs, bound), 1)]

\* chain: out <- in, then for i := start; i < start+steps; i++ (uint8) one
\* step with the hash index i.  The loop is summarised: it runs
\* bound - start times when bound = uint8(start+steps) is above start, and not
\* at all otherwise.  Returns the output block and the address it leaves.
chain(h, in, start, steps, adrs) ==
    LET bound == uint8(start + steps)
        n     == IF bound > start THEN bound - start ELSE 0
        key   == prfPubSeed(h, setKeyAndMask(setHash(adrs, start), 0))
        mask  == prfPubSeed(h, setKeyAndMask(setHash(adrs, start), 1))
    IN  IF n = 0 THEN [out |-> in, adrs |-> adrs]
        ELSE [out  |-> hashFTimes(h, key, mask, in, n),
              adrs |-> setKeyAndMask(setHash(adrs, bound - 1), 1)]

\* expandSeed: l blocks, block i = prf_priv(counter i) on hasher context 0
expandSeed(h) ==
    [i \in 1..h.params.l |-> Block(prfPrivSeed(h, uint16(i - 1)))]

\* A byte slice handed in by the caller: arr is its backing array in blocks
\* (so cap = Len(arr)), len its length in blocks.
Slice(blocks) == [arr |-> blocks, len |-> Len(blocks)]

\* firstChain one chain too far
firstChainOfNext(nr, chainsPerRoutine) == nr * chainsPerRoutine + 1

\* computeChains, first and last chain of goroutine nr
firstChainOf(nr, chainsPerRoutine) == nr * chainsPerRoutine

\* lastChain without the correction for the last goroutine
lastChainOfUnclamped(nr, chainsPerRoutine, p) ==
    firstChainOf(nr, chainsPerRoutine) + chainsPerRoutine - 1

lastChainOf(nr, chainsPerRoutine, p) ==
    LET lastChain == firstChainOf(nr, chainsPerRoutine) + chainsPerRoutine - 1
    IN  IF lastChain >= p.l THEN p.l - 1 ELSE lastChain

\* chainsPerRoutine rounded down
chainsPerRoutineFloor(p, numRoutines) == GoDiv(p.l, numRoutines)

chainsPerRoutineOf(p, numRoutines) == GoDiv(p.l - 1, numRoutines) + 1

\* the values chainIdx takes in the loop of goroutine nr, for chainIdx :=
\* firstChain; chainIdx <= lastChain; chainIdx++ : the chains whose input,
\* output and length the goroutine indexes
loopChains(nr, numRoutines, p) ==
    LET chainsPerRoutine == chainsPerRoutineOf(p, numRoutines)
    IN  firstChainOf(nr, chainsPerRoutine) .. lastChainOf(nr, chainsPerRoutine, p)

\* the steps of every chain counted from w, not w-1
chainArgsFromW(lengths, p, fromSig, chainIdx) ==
    IF fromSig
    THEN [start |-> lengths[chainIdx + 1],
          steps |-> uint8(uint8(p.w) - lengths[chainIdx + 1])]
    ELSE [start |-> 0, steps |-> lengths[chainIdx + 1]]

\* computeChains, the start and the steps (end) of chain chainIdx: from the
\* chain length on to w-1 when the input is a signature, from 0 up to the
\* chain length when not; both are uint8
chainArgs(lengths, p, fromSig, chainIdx) ==
    IF fromSig
    THEN [start |-> lengths[chainIdx + 1],
          steps |-> uint8(uint8(p.w - 1) - lengths[chainIdx + 1])]
    ELSE [start |-> 0, steps |-> lengths[chainIdx + 1]]

\* go computeChain(routineIdx, scratch[:64], ...): every goroutine on the
\* first 64 bytes of the scratch pad
scratchOfFirst(routineIdx) == [base |-> 0, len |-> 64]

\* go computeChain(routineIdx, scratch[routineIdx*64:(routineIdx+1)*64], ...):
\* the part of the scratch pad goroutine routineIdx gets
scratchOf(routineIdx) == [base |-> routineIdx * 64, len |-> 64]

\* the parameter adrs [32]byte of goroutine routineIdx: an array of its own in
\* the goroutine's frame (0 is the array of the caller, *adrs)
adrsOf(routineIdx) == routineIdx + 1

\* What one iteration of the loop of goroutine nr writes, as byte ranges lo..hi
\* of out and of the scratch pad, the hasher context and the address array:
\* setChain(&adrs, ...) and copy(out, in) every time and, when chain takes at
\* least one step, prfPubSeed into scratch[:32] and scratch[32:64] and hashF
\* into out, all on hashers[nr].  The digest has N bytes, so Sum(inout[:0])
\* fills inout and no more.
chainOfWrites(nr, scratch, lengths, p, fromSig, chainIdx) ==
    LET start == chainArgs(lengths, p, fromSig, chainIdx).start
        end   == chainArgs(lengths, p, fromSig, chainIdx).steps
        bound == uint8(start + end)
    IN  {[res |-> "adrs", lo |-> adrsOf(nr), hi |-> adrsOf(nr)],
         [res |-> "out", lo |-> chainIdx * N, hi |-> (chainIdx + 1) * N - 1]}
          \cup (IF bound > start
                THEN {[res |-> "scratch", lo |-> scratch.base, hi |-> scratch.base + 31],
                      [res |-> "scratch", lo |-> scratch.base + 32, hi |-> scratch.base + 63],
                      [res |-> "hasher", lo |-> nr, hi |-> nr]}
                ELSE {})

\* the iteration with the steps left on a chain counted from w, not w-1
chainOfFromW(h, in, out, lengths, p, fromSig, chainIdx, adrs) ==
    IF chainIdx + 1 > Len(in.arr) \/ chainIdx + 1 > Len(out) \/ chainIdx + 1 > Len(lengths)
    THEN [panic |-> TRUE, out |-> out, adrs |-> setChain(adrs, chainIdx)]
    ELSE LET a     == setChain(adrs, chainIdx)
             start == IF fromSig THEN lengths[chainIdx + 1] ELSE 0
             end   == IF fromSig THEN uint8(uint8(p.w) - lengths[chainIdx + 1])
                                 ELSE lengths[chainIdx + 1]
             r     == chain(h, in.arr[chainIdx + 1], start, end, a)
         IN  [panic |-> FALSE, out |-> [out EXCEPT ![chainIdx + 1] = r.out], adrs |-> r.adrs]

\* computeChains, one iteration of a goroutine's loop, for chain chainIdx and
\* the goroutine's address copy adrs.  Slicing in or out past its capacity,
\* or indexing lengths past its end, panics.
chainOf(h, in, out, lengths, p, fromSig, chainIdx, adrs) ==
    IF chainIdx + 1 > Len(in.arr) \/ chainIdx + 1 > Len(out) \/ chainIdx + 1 > Len(lengths)
    THEN [panic |-> TRUE, out |-> out, adrs |-> setChain(adrs, chainIdx)]
    ELSE LET a     == setChain(adrs, chainIdx)
             start == chainArgs(lengths, p, fromSig, chainIdx).start
             end   == chainArgs(lengths, p, fromSig, chainIdx).steps
             r     == chain(h, in.arr[chainIdx + 1], start, end, a)
         IN  [panic |-> FALSE, out |-> [out EXCEPT ![chainIdx + 1] = r.out], adrs |-> r.adrs]

\* the loop of one goroutine, for chainIdx := firstChain; chainIdx <= lastChain;
\* the iterations run in order, each on the output and the address the one
\* before left (the range is evaluated by halves to keep the evaluation
\* flat, and the result of the first half is bound once for the second)
RECURSIVE routineLoop(_, _, _, _, _, _, _, _, _)
routineLoop(h, in, out, lengths, p, fromSig, firstChain, lastChain, adrs) ==
    IF firstChain > lastChain THEN [panic |-> FALSE, out |-> out, adrs |-> adrs]
    ELSE IF firstChain = lastChain
    THEN chainOf(h, in, out, lengths, p, fromSig, firstChain, adrs)
    ELSE LET mid  == (firstChain + lastChain) \div 2
         IN  CHOOSE right \in
                 {IF left.panic THEN left
                  ELSE routineLoop(h, in, left.out, lengths, p, fromSig, mid + 1, lastChain,
                                   left.adrs) :
                  left \in {routineLoop(h, in, out, lengths, p, fromSig, firstChain, mid, adrs)}} :
                 TRUE

\* go computeChain(routineIdx, ..., adrs) with the parameter a pointer: the
\* goroutine works on the caller's array
goComputeChainByPointer(adrs, copy) == copy

\* go computeChain(routineIdx, ..., *adrs): the parameter adrs [32]byte is
\* passed by value, so *adrs is what it was whatever the goroutine leaves in
\* its copy
goComputeChain(adrs, copy) == adrs

\* goroutines firstNr .. lastNr run one after the other, each on its own copy
\* of *adrs; the result has out and *adrs as the goroutines leave them
RECURSIVE routinesRun(_, _, _, _, _, _, _, _, _, _)
routinesRun(h, numRoutines, in, out, lengths, adrs, p, fromSig, firstNr, lastNr) ==
    IF firstNr > lastNr THEN [panic |-> FALSE, out |-> out, adrs |-> adrs]
    ELSE IF firstNr = lastNr
    THEN LET cpr == chainsPerRoutineOf(p, numRoutines)
             r   == routineLoop(h, in, out, lengths, p, fromSig,
                                firstChainOf(firstNr, cpr), lastChainOf(firstNr, cpr, p), adrs)
         IN  [panic |-> r.panic, out |-> r.out, adrs |-> goComputeChain(adrs, r.adrs)]
    ELSE LET mid  == (firstNr + lastNr) \div 2
             left == routinesRun(h, numRoutines, in, out, lengths, adrs, p, fromSig, firstNr, mid)
         IN  IF left.panic THEN left
             ELSE routinesRun(h, numRoutines, in, left.out, lengths, left.adrs, p, fromSig,
                              mid + 1, lastNr)

\* computeChains: every goroutine gets a copy of *adrs; the result is out once
\* all goroutines are done
computeChains(h, numRoutines, in, out, lengths, adrs, p, fromSig) ==
    routinesRun(h, numRoutines, in, out, lengths, adrs, p, fromSig, 0, numRoutines - 1)

\* ---------------------------------------------------------------------------
\* wots.go: the primitives.  A call returns [kind, val]: kind "ok" with the
\* returned value, or kind "panic" (the primitives have no error result).

Ok(v) == [kind |-> "ok", val |-> v]
Panic == [kind |-> "panic", val |-> <<>>]

\* make([]byte, l*N)
make(l) == [i \in 1..l |-> ZeroBlock]

\* GenPublicKey from the hasher h it made up to its call of computeChains
GenPublicKeyFrom(h, p, numRoutines, opts) ==
    LET privKey     == expandSeed(h)
        lengths     == [i \in 1..p.l |-> uint8(p.w - 1)]
    IN  [panic |-> h.panic, h |-> h, numRoutines |-> numRoutines,
         in |-> Slice(privKey), out |-> make(p.l), lengths |-> lengths,
         adrs |-> opts.Address, p |-> p, fromSig |-> FALSE]

\* GenPublicKey up to its call of computeChains: the arguments of the call
GenPublicKeyChains(seed, pubSeed, opts, procs, cpus) ==
    LET p           == params(opts.Mode).p
        numRoutines == routines(opts, procs, cpus)
        h           == newHasher(seed, pubSeed, opts, numRoutines)
    IN  GenPublicKeyFrom(h, p, numRoutines, opts)

\* Sign from the hasher h it made up to its call of computeChains
SignFrom(h, p, numRoutines, msg, opts) ==
    LET privKey     == expandSeed(h)
        digits      == baseW(h.params, msg, p.l1)
        \* csum and the append are not reached when baseW panicked; csum
        \* panics when it indexes past the digits
        short       == digits.panic \/ Len(digits.d) < h.params.l1
        lengths     == IF short THEN <<>>
                       ELSE digits.d \o checksum(h.params, digits.d)
    IN  [panic |-> h.panic \/ short, h |-> h, numRoutines |-> numRoutines,
         in |-> Slice(privKey), out |-> make(p.l), lengths |-> lengths,
         adrs |-> opts.Address, p |-> p, fromSig |-> FALSE]

\* Sign up to its call of computeChains
SignChains(msg, seed, pubSeed, opts, procs, cpus) ==
    LET p           == params(opts.Mode).p
        numRoutines == routines(opts, procs, cpus)
        h           == newHasher(seed, pubSeed, opts, numRoutines)
    IN  SignFrom(h, p, numRoutines, msg, opts)

\* PublicKeyFromSig from the hasher h it made up to its call of computeChains
PublicKeyFromSigFrom(h, p, numRoutines, sig, msg, opts) ==
    LET digits      == baseW(h.params, msg, h.params.l1)
        \* csum and the append are not reached when baseW panicked
        lengths     == IF digits.panic THEN <<>>
                       ELSE digits.d \o checksum(h.params, digits.d)
    IN  [panic |-> h.panic \/ digits.panic, h |-> h, numRoutines |-> numRoutines,
         in |-> sig, out |-> make(p.l), lengths |-> lengths,
         adrs |-> opts.Address, p |-> p, fromSig |-> TRUE]

\* PublicKeyFromSig up to its call of computeChains
PublicKeyFromSigChains(sig, msg, pubSeed, opts, procs, cpus) ==
    LET p           == params(opts.Mode).p
        numRoutines == routines(opts, procs, cpus)
        h           == newHasher("nil", pubSeed, opts, numRoutines)
    IN  PublicKeyFromSigFrom(h, p, numRoutines, sig, msg, opts)

\* the call of computeChains and the return of the primitive, with the frame
\* of the primitive at that point: ret is the out buffer it returns, adrs the
\* address in its own copy of the Opts (adrs := &opts.Address)
CallChains(a) ==
    IF a.panic THEN [ret |-> Panic, adrs |-> a.adrs]
    ELSE LET r == computeChains(a.h, a.numRoutines, a.in, a.out, a.lengths,
                                a.adrs, a.p, a.fromSig)
         IN  [ret |-> IF r.panic THEN Panic ELSE Ok(r.out), adrs |-> r.adrs]

\* what the primitive returns
ReturnChains(a) == CallChains(a).ret

GenPublicKey(seed, pubSeed, opts, procs, cpus) ==
    ReturnChains(GenPublicKeyChains(seed, pubSeed, opts, procs, cpus))

Sign(msg, seed, pubSeed, opts, procs, cpus) ==
    ReturnChains(SignChains(msg, seed, pubSeed, opts, procs, cpus))

PublicKeyFromSig(sig, msg, pubSeed, opts, procs, cpus) ==
    ReturnChains(PublicKeyFromSigChains(sig, msg, pubSeed, opts, procs, cpus))

\* subtle.ConstantTimeCompare: 0 when the lengths differ
ConstantTimeCompare(x, y) ==
    IF Len(x) # Len(y) THEN 0 ELSE IF x = y THEN 1 ELSE 0

\* Verify with the comparison read like bytes.Compare (0 for equal)
VerifyCompareZero(pk, pubKeyFromSig) ==
    IF pubKeyFromSig.kind = "panic" THEN Panic
    ELSE Ok(ConstantTimeCompare(pk, pubKeyFromSig.val) = 0)

\* Verify with a mismatch returned as an error
VerifyMismatchError(pk, pubKeyFromSig) ==
    IF pubKeyFromSig.kind = "panic" THEN Panic
    ELSE IF ConstantTimeCompare(pk, pubKeyFromSig.val) = 1 THEN Ok(TRUE)
    ELSE [kind |-> "err", val |-> FALSE]

\* Verify once pubKeyFromSig is what its call of PublicKeyFromSig returned
VerifyCompare(pk, pubKeyFromSig) ==
    IF pubKeyFromSig.kind = "panic" THEN Panic
    ELSE Ok(ConstantTimeCompare(pk, pubKeyFromSig.val) = 1)

Verify(pk, sig, msg, pubSeed, opts, procs, cpus) ==
    VerifyCompare(pk, PublicKeyFromSig(sig, msg, pubSeed, opts, procs, cpus))

\* ---------------------------------------------------------------------------
\* The callers.  A run fixes the seeds, the message and the Opts, derives the
\* public key and the signature, and then makes one more call: any primitive
\* again with an Opts that differs only in Concurrency, or PublicKeyFromSig or
\* Verify on arguments that were altered on the way.

VARIABLES
    seed,       \* the private seed
    pubSeed,    \* the public seed
    msg,        \* the message, a sequence of bytes
    opts,       \* the caller's Opts
    pc,         \* "start", "havePk", "haveSig", "done"
    pk,         \* what GenPublicKey(seed, pubSeed, opts) returned
    sig,        \* what Sign(msg, seed, pubSeed, opts) returned
    call,       \* the last call: primitive, Concurrency, argument variants, the
                \* result and the address of its frame at the return
    chains,     \* the arguments of the computeChains call in progress
    output,     \* the out buffer of that call, block by block
    routine,    \* routine[nr + 1]: goroutine nr's pc, chainIdx, lastChain, adrs,
                \* its part of the scratch pad and what it has written so far
    done,       \* the number of values in the channel done
    received,   \* the i of the loop that receives from done
    address,    \* an Address of the caller, the one its setters are called on
    written,    \* the value each setter was last called with on address
    unit,       \* the last call of AddressFromBytes, routines, baseW or checksum
    calls,      \* calls[i]: the frame of caller i's call of a primitive
    heap        \* the hashers that new(hasher) allocated, by reference

vars == <<seed, pubSeed, msg, opts, pc, pk, sig, call, chains, output, routine, done, received,
          address, written, unit, calls, heap>>
\* the variables of a run of the primitives
runVars == <<seed, pubSeed, msg, opts, pc, pk, sig, call, chains, output, routine, done, received>>
\* the variables of the calls on addresses and digits
unitVars == <<address, written, unit, calls, heap>>

None == [kind |-> "none", val |-> <<>>]
NoCall == [op |-> "none", conc |-> 0, pkv |-> [t |-> "asis", i |-> 0],
           sigv |-> [t |-> "asis", i |-> 0], msgv |-> [t |-> "asis", i |-> 0],
           ret |-> None, adrs |-> ZeroAddress]

ModeInputs == {W16, W4, W256, W256 + 1}
ValidModes == {W4, W16, W256}
HashInputs == {"0", "BLAKE2b_256", "SHA512"}
ConcInputs == (-1 .. MaxConc) \cup {BigConc}
ProcInputs == 1 .. MaxProcs
\* what the runtime may answer to a call made with Concurrency c
Envs(c) == IF c < 0 THEN ProcInputs \X ProcInputs ELSE {<<1, 1>>}
AddressInputs ==
    {ZeroAddress,
     [layer |-> 1, tree |-> 2, type |-> 0, ots |-> 3, chain |-> 4, hash |-> 5, km |-> 6]}
MsgInputs ==
    {[i \in 1..N |-> 2], [i \in 1..N |-> (i * 67) % 256]}

\* the Opts of a run: any mode and Concurrency, and one of the address and
\* the hash off its default
OptsInputs ==
    [Mode : ModeInputs, Address : AddressInputs, Concurrency : ConcInputs, Hash : {"0"}]
      \cup [Mode : ModeInputs, Address : {ZeroAddress}, Concurrency : ConcInputs,
            Hash : HashInputs]

\* the message with bit k flipped (bit 0 is the top bit of byte 0)
FlipBit(m, k) ==
    LET j == (k \div 8) + 1
        b == Pow2(7 - (k % 8))
    IN  [m EXCEPT ![j] = IF (@ \div b) % 2 = 1 THEN @ - b ELSE @ + b]

\* the bits of the message that a run may flip
FlipBits == (0 .. MaxFlipBit) \cup ((8 * N - 1 - MaxFlipBit) .. (8 * N - 1))

\* block i with one bit flipped: different bytes, of no known preimage
Flipped(b) == Block([t |-> "flip", of |-> b])
\* a block of caller data
CallerBlock(i) == Block([t |-> "caller", i |-> i])

Var(t, i) == [t |-> t, i |-> i]
AsIs == Var("asis", 0)

\* the key or signature the caller holds: the one the primitive returned, or
\* l blocks of its own when the primitive did not return
Held(r) ==
    IF r.kind = "ok" THEN r.val
    ELSE [i \in 1..params(opts.Mode).p.l |-> CallerBlock(i)]

\* the variants of a key or signature b
BytesVariants(b) ==
    {AsIs, Var("long", 0)}
        \cup (IF Len(b) > 0 THEN {Var("short", 0), Var("resliced", 0)} ELSE {})
        \cup {Var("flip", i) : i \in {j \in 1..Len(b) : j <= MaxFlipBlk \/ j > Len(b) - MaxFlipBlk}}

\* "short" drops the last block (a fresh, shorter buffer), "resliced" drops
\* it by reslicing (b[:len-N], the capacity still holds it), "long" appends
\* a block, "flip" flips a bit of block i
BytesArg(b, v) ==
    CASE v.t = "asis"     -> Slice(b)
      [] v.t = "short"    -> Slice(SubSeq(b, 1, Len(b) - 1))
      [] v.t = "resliced" -> [arr |-> b, len |-> Len(b) - 1]
      [] v.t = "long"     -> Slice(Append(b, CallerBlock(0)))
      [] v.t = "flip"     -> Slice([b EXCEPT ![v.i] = Flipped(@)])

\* the bytes of a slice that the caller (and len()) sees
Visible(s) == SubSeq(s.arr, 1, s.len)

MsgVariants == {AsIs, Var("short", 0), Var("long", 0)} \cup {Var("flip", k) : k \in FlipBits}

MsgArg(m, v) ==
    CASE v.t = "asis"  -> m
      [] v.t = "short" -> SubSeq(m, 1, Len(m) - 1)
      [] v.t = "long"  -> Append(m, 0)
      [] v.t = "flip"  -> FlipBit(m, v.i)

\* the last call changes the Opts (Concurrency only) or one argument
LastCalls ==
    {[conc |-> c, pkv |-> AsIs, sigv |-> AsIs, msgv |-> AsIs] : c \in ConcInputs}
      \cup {[conc |-> opts.Concurrency, pkv |-> v, sigv |-> AsIs, msgv |-> AsIs] :
                v \in BytesVariants(Held(pk))}
      \cup {[conc |-> opts.Concurrency, pkv |-> AsIs, sigv |-> v, msgv |-> AsIs] :
                v \in BytesVariants(Held(sig))}
      \cup {[conc |-> opts.Concurrency, pkv |-> AsIs, sigv |-> AsIs, msgv |-> v] :
                v \in MsgVariants}

\* a uint32 in two 16-bit halves
U32(hi, lo) == [hi |-> hi, lo |-> lo]
\* a uint64 in two 32-bit halves
U64(hi, lo) == [hi |-> hi, lo |-> lo]

\* Address{}: 32 zero bytes
NewAddress == [data |-> [i \in 1..32 |-> 0]]

\* the callers that call a primitive at the same time
Callers == {1, 2}
\* the frame of a caller that has not called
NoFrame == [pc |-> "idle"]

\* no call on an address or on digits was made, and none by the callers
NoUnits ==
    /\ calls = [i \in Callers |-> NoFrame]
    /\ heap = <<>>
    /\ address = NewAddress
    /\ written = [layer |-> U32(0, 0), tree |-> U64(U32(0, 0), U32(0, 0)), type |-> U32(0, 0),
                  ots |-> U32(0, 0), chain |-> U32(0, 0), hash |-> U32(0, 0),
                  km |-> U32(0, 0)]
    /\ unit = [op |-> "none"]

\* no computeChains call is in progress
NoChains ==
    /\ chains = [panic |-> FALSE]
    /\ output = <<>>
    /\ routine = <<>>
    /\ done = 0
    /\ received = 0

Init ==
    /\ seed \in {"seed"}
    /\ pubSeed \in {"pubSeed"}
    /\ msg \in MsgInputs
    /\ opts \in OptsInputs
    /\ pc = "start"
    /\ pk = None
    /\ sig = None
    /\ call = NoCall
    /\ NoChains
    /\ NoUnits

CallGenPublicKey ==
    /\ pc = "start"
    /\ \E env \in Envs(opts.Concurrency) :
          pk' = GenPublicKey(seed, pubSeed, opts, env[1], env[2])
    /\ pc' = "havePk"
    /\ UNCHANGED <<unitVars, seed, pubSeed, msg, opts, sig, call, chains, output, routine, done, received>>

CallSign ==
    /\ pc = "havePk"
    /\ \E env \in Envs(opts.Concurrency) :
          sig' = Sign(msg, seed, pubSeed, opts, env[1], env[2])
    /\ pc' = "haveSig"
    /\ UNCHANGED <<unitVars, seed, pubSeed, msg, opts, pk, call, chains, output, routine, done, received>>

\* the call op made with the variants c, which returned ret from the frame r
Record(op, c, ret, r) ==
    [op |-> op, conc |-> c.conc, pkv |-> c.pkv, sigv |-> c.sigv, msgv |-> c.msgv,
     ret |-> ret, adrs |-> r.adrs]

AgainGenPublicKey ==
    /\ pc = "haveSig"
    /\ \E c \in LastCalls :
          /\ c.pkv = AsIs /\ c.sigv = AsIs /\ c.msgv = AsIs
          /\ \E env \in Envs(c.conc) :
                LET o == [opts EXCEPT !.Concurrency = c.conc]
                IN  \E r \in {CallChains(GenPublicKeyChains(seed, pubSeed, o,
                                                            env[1], env[2]))} :
                        call' = Record("GenPublicKey", c, r.ret, r)
    /\ pc' = "done"
    /\ UNCHANGED <<unitVars, seed, pubSeed, msg, opts, pk, sig, chains, output, routine, done, received>>

AgainSign ==
    /\ pc = "haveSig"
    /\ \E c \in LastCalls :
          /\ c.pkv = AsIs /\ c.sigv = AsIs
          /\ \E env \in Envs(c.conc) :
                LET o == [opts EXCEPT !.Concurrency = c.conc]
                IN  \E r \in {CallChains(SignChains(MsgArg(msg, c.msgv), seed, pubSeed, o,
                                                    env[1], env[2]))} :
                        call' = Record("Sign", c, r.ret, r)
    /\ pc' = "done"
    /\ UNCHANGED <<unitVars, seed, pubSeed, msg, opts, pk, sig, chains, output, routine, done, received>>

CallPublicKeyFromSig ==
    /\ pc = "haveSig"
    /\ \E c \in LastCalls :
          /\ c.pkv = AsIs
          /\ \E env \in Envs(c.conc) :
                LET o == [opts EXCEPT !.Concurrency = c.conc]
                IN  \E r \in {CallChains(PublicKeyFromSigChains(
                                             BytesArg(Held(sig), c.sigv), MsgArg(msg, c.msgv),
                                             pubSeed, o, env[1], env[2]))} :
                        call' = Record("PublicKeyFromSig", c, r.ret, r)
    /\ pc' = "done"
    /\ UNCHANGED <<unitVars, seed, pubSeed, msg, opts, pk, sig, chains, output, routine, done, received>>

CallVerify ==
    /\ pc = "haveSig"
    /\ \E c \in LastCalls :
          \E env \in Envs(c.conc) :
              LET o == [opts EXCEPT !.Concurrency = c.conc]
              \* pubKeyFromSig := PublicKeyFromSig(sig, msg, pubSeed, opts)
              IN  \E r \in {CallChains(PublicKeyFromSigChains(
                                           BytesArg(Held(sig), c.sigv), MsgArg(msg, c.msgv),
                                           pubSeed, o, env[1], env[2]))} :
                      call' = Record("Verify", c,
                                     VerifyCompare(Visible(BytesArg(Held(pk), c.pkv)), r.ret),
                                     r)
    /\ pc' = "done"
    /\ UNCHANGED <<unitVars, seed, pubSeed, msg, opts, pk, sig, chains, output, routine, done, received>>

Next ==
    \/ CallGenPublicKey
    \/ CallSign
    \/ AgainGenPublicKey
    \/ AgainSign
    \/ CallPublicKeyFromSig
    \/ CallVerify

Spec == Init /\ [][Next]_vars

\* ---------------------------------------------------------------------------
\* computeChains, goroutine by goroutine.  After the key and the signature of
\* the run are made, one primitive is called again and its computeChains runs
\* as the code schedules it: the goroutines take their loop iterations in any
\* order, each sends on done when its loop ends, and the caller returns after
\* numRoutines receives.  A loop iteration is one step: it reads in and
\* lengths, which nobody writes, and writes the goroutine's own address copy
\* and block chainIdx of out.

\* the modes whose chains are scheduled goroutine by goroutine
ChainsModes == {W256, W16}
ChainsOpts ==
    [Mode : ChainsModes, Address : AddressInputs \ {ZeroAddress},
     Concurrency : 1 .. MaxRoutines, Hash : {"0"}]
ChainsMsg == [i \in 1..N |-> (i * 67) % 256]
ChainsOps == {"GenPublicKey", "Sign", "PublicKeyFromSig"}

InitChains ==
    /\ seed \in {"seed"}
    /\ pubSeed \in {"pubSeed"}
    /\ msg = ChainsMsg
    /\ opts \in ChainsOpts
    /\ pc = "start"
    /\ pk = None
    /\ sig = None
    /\ call = NoCall
    /\ NoChains
    /\ NoUnits

\* the primitive op of the run up to its call of computeChains
ChainsOf(op) ==
    CASE op = "GenPublicKey" -> GenPublicKeyChains(seed, pubSeed, opts, 1, 1)
      [] op = "Sign" -> SignChains(msg, seed, pubSeed, opts, 1, 1)
      [] op = "PublicKeyFromSig" ->
            PublicKeyFromSigChains(Slice(Held(sig)), msg, pubSeed, opts, 1, 1)

\* a primitive is called and reaches computeChains, which starts its
\* numRoutines goroutines, each with a copy of *adrs (a goroutine started
\* before the others are is the same as one that has not run yet)
GoComputeChainOf(op) ==
    /\ LET a   == ChainsOf(op)
           cpr == chainsPerRoutineOf(a.p, a.numRoutines)
       IN  /\ ~a.panic
           /\ call' = [NoCall EXCEPT !.op = op, !.conc = opts.Concurrency]
           /\ chains' = a
           /\ output' = a.out
           /\ routine' = [i \in 1..a.numRoutines |->
                            [pc |-> "loop",
                             chainIdx |-> firstChainOf(i - 1, cpr),
                             lastChain |-> lastChainOf(i - 1, cpr, a.p),
                             adrs |-> a.adrs,
                             scratch |-> scratchOf(i - 1),
                             writes |-> {}]]
    /\ done' = 0
    /\ received' = 0
    /\ pc' = "chains"
    /\ UNCHANGED <<unitVars, seed, pubSeed, msg, opts, pk, sig>>

\* any of the three primitives, once the key and the signature are there
GoComputeChain ==
    /\ pc = "haveSig"
    /\ \E op \in ChainsOps : GoComputeChainOf(op)

\* goroutine nr runs one iteration of its loop; a panic in a goroutine ends
\* the program
ComputeChainLoop(nr) ==
    /\ pc = "chains"
    /\ nr < chains.numRoutines
    /\ routine[nr + 1].pc = "loop"
    /\ routine[nr + 1].chainIdx <= routine[nr + 1].lastChain
    /\ LET g == routine[nr + 1]
           r == chainOf(chains.h, chains.in, output, chains.lengths, chains.p,
                        chains.fromSig, g.chainIdx, g.adrs)
       IN  /\ output' = r.out
           /\ routine' = [routine EXCEPT ![nr + 1] =
                            [@ EXCEPT !.chainIdx = @ + 1, !.adrs = r.adrs,
                                      !.writes = IF r.panic THEN @
                                                 ELSE @ \cup chainOfWrites(nr, g.scratch,
                                                          chains.lengths, chains.p,
                                                          chains.fromSig, g.chainIdx)]]
           /\ pc' = IF r.panic THEN "done" ELSE pc
           /\ call' = IF r.panic THEN [call EXCEPT !.ret = Panic] ELSE call
    /\ UNCHANGED <<unitVars, seed, pubSeed, msg, opts, pk, sig, chains, done, received>>

\* a channel with room for one value less
doneCapOneLess(numRoutines) == numRoutines - 1

\* done := make(chan struct{}, numRoutines): the values the channel holds
doneCap(numRoutines) == numRoutines

\* goroutine nr is at done <- struct{}{}, its loop over
AtSend(nr) ==
    /\ pc = "chains"
    /\ nr < chains.numRoutines
    /\ routine[nr + 1].pc = "loop"
    /\ routine[nr + 1].chainIdx > routine[nr + 1].lastChain

\* goroutine nr leaves its loop and sends on done; the send waits while the
\* channel is full
ComputeChainDone(nr) ==
    /\ AtSend(nr)
    /\ done < doneCap(chains.numRoutines)
    /\ routine' = [routine EXCEPT ![nr + 1] = [@ EXCEPT !.pc = "exited"]]
    /\ done' = done + 1
    /\ UNCHANGED <<unitVars, seed, pubSeed, msg, opts, pc, pk, sig, call, chains, output, received>>

\* the receive loop leaving one receive out (i < numRoutines-1)
receiveLoopOneShort == received >= chains.numRoutines - 1

\* for i := 0; i < numRoutines; i++ { <-done }: the loop is over after
\* numRoutines receives
receiveLoopOver == received >= chains.numRoutines

\* the caller receives one value from done
ReceiveDone ==
    /\ pc = "chains"
    /\ ~receiveLoopOver
    /\ done > 0
    /\ done' = done - 1
    /\ received' = received + 1
    /\ UNCHANGED <<unitVars, seed, pubSeed, msg, opts, pc, pk, sig, call, chains, output, routine>>

\* the receive loop is over: computeChains returns, and the primitive
\* returns its out buffer
ReturnComputeChains ==
    /\ pc = "chains"
    /\ receiveLoopOver
    /\ call' = [call EXCEPT !.ret = Ok(output), !.adrs = chains.adrs]
    /\ pc' = "done"
    /\ UNCHANGED <<unitVars, seed, pubSeed, msg, opts, pk, sig, chains, output, routine, done, received>>

NextChains ==
    \/ CallGenPublicKey
    \/ CallSign
    \/ GoComputeChain
    \/ \E nr \in 0 .. MaxRoutines - 1 : ComputeChainLoop(nr)
    \/ \E nr \in 0 .. MaxRoutines - 1 : ComputeChainDone(nr)
    \/ ReceiveDone
    \/ ReturnComputeChains

SpecChains == InitChains /\ [][NextChains]_vars

\* ---------------------------------------------------------------------------
\* computeChains with up to MaxJoin goroutines, under the scheduling of the Go
\* runtime, in a call of GenPublicKey (every chain has its w-1 steps): a
\* goroutine that can run gets to run, and so does the caller.  A
\* goroutine is one step here, its loop (a bounded for loop over bounded
\* chains, which shares nothing with the others) and then its send, which
\* waits while the channel is full; the receives and the return are steps of
\* the caller.

MaxJoin == 8    \* 1 .. MaxJoin goroutines; with 8 of them the last one of
                \* W256 has no chain left
JoinOpts ==
    [Mode : {W256}, Address : AddressInputs \ {ZeroAddress},
     Concurrency : 1 .. MaxJoin, Hash : {"0"}]

InitJoin ==
    /\ seed \in {"seed"}
    /\ pubSeed \in {"pubSeed"}
    /\ msg = ChainsMsg
    /\ opts \in JoinOpts
    /\ pc = "start"
    /\ pk = None
    /\ sig = None
    /\ call = NoCall
    /\ NoChains
    /\ NoUnits

\* goroutine nr runs its loop from firstChain to lastChain and sends on done
ComputeChain(nr) ==
    /\ pc = "chains"
    /\ nr < chains.numRoutines
    /\ routine[nr + 1].pc = "loop"
    /\ done < doneCap(chains.numRoutines)
    /\ LET g == routine[nr + 1]
       IN  \E r \in {routineLoop(chains.h, chains.in, output, chains.lengths, chains.p,
                                 chains.fromSig, g.chainIdx, g.lastChain, g.adrs)} :
              /\ output' = r.out
              /\ routine' = [routine EXCEPT ![nr + 1] =
                               [@ EXCEPT !.chainIdx = IF g.chainIdx > g.lastChain THEN @
                                                        ELSE g.lastChain + 1,
                                         !.adrs = r.adrs,
                                         !.pc = IF r.panic THEN @ ELSE "exited",
                                         !.writes = IF r.panic THEN @
                                                    ELSE @ \cup UNION {chainOfWrites(nr, g.scratch,
                                                             chains.lengths, chains.p,
                                                             chains.fromSig, j) :
                                                             j \in g.chainIdx .. g.lastChain}]]
              /\ pc' = IF r.panic THEN "done" ELSE pc
              /\ call' = IF r.panic THEN [call EXCEPT !.ret = Panic] ELSE call
              /\ done' = IF r.panic THEN done ELSE done + 1
    /\ UNCHANGED <<unitVars, seed, pubSeed, msg, opts, pk, sig, chains, received>>

\* what the caller does in computeChains once the goroutines are started
Caller == ReceiveDone \/ ReturnComputeChains

\* GenPublicKey is called and starts the goroutines of computeChains
GoComputeChainJoin ==
    /\ pc = "start"
    /\ GoComputeChainOf("GenPublicKey")

NextJoin ==
    \/ GoComputeChainJoin
    \/ \E nr \in 0 .. MaxJoin - 1 : ComputeChain(nr)
    \/ ReceiveDone
    \/ ReturnComputeChains

SpecJoin ==
    /\ InitJoin /\ [][NextJoin]_vars
    /\ \A nr \in 0 .. MaxJoin - 1 : WF_vars(ComputeChain(nr))
    /\ WF_vars(Caller)

\* ---------------------------------------------------------------------------
\* address.go, byte by byte.  An Address is its data array of 32 bytes; the
\* setters are called on one Address in any order, and AddressFromBytes on
\* byte slices of the caller.

MaxOff == 1     \* AddressFromBytes gets slices of 32 - MaxOff .. 32 + MaxOff bytes

\* binary.BigEndian.PutUint32(b[off:], v): b[off] = byte(v >> 24), ...,
\* b[off+3] = byte(v)
PutUint32(b, off, v) ==
    [i \in 1..Len(b) |->
        CASE i = off + 1 -> v.hi \div 256
          [] i = off + 2 -> v.hi % 256
          [] i = off + 3 -> v.lo \div 256
          [] i = off + 4 -> v.lo % 256
          [] OTHER -> b[i]]

\* binary.BigEndian.PutUint64(b[off:], v): b[off] = byte(v >> 56), ...,
\* b[off+7] = byte(v)
PutUint64(b, off, v) == PutUint32(PutUint32(b, off, v.hi), off + 4, v.lo)

SetLayer(a, l) == [data |-> PutUint32(a.data, 0, l)]
SetTree(a, t) == [data |-> PutUint64(a.data, 4, t)]
SetType(a, t) == [data |-> PutUint32(a.data, 12, t)]
\* SetOTS writing at the offset of the type field
SetOTSAtType(a, o) == [data |-> PutUint32(a.data, 12, o)]
SetOTS(a, o) == [data |-> PutUint32(a.data, 16, o)]
Address_setChain(a, c) == [data |-> PutUint32(a.data, 20, c)]
Address_setHash(a, h) == [data |-> PutUint32(a.data, 24, h)]
Address_setKeyAndMask(a, km) == [data |-> PutUint32(a.data, 28, km)]

\* ToBytes: a.data[:]
ToBytes(a) == SubSeq(a.data, 1, 32)

\* copy(dst, src): the first min(len(dst), len(src)) elements
copy(dst, src) ==
    [i \in 1..Len(dst) |-> IF i <= Len(src) THEN src[i] ELSE dst[i]]

\* AddressFromBytes refusing only the slices that are too long
AddressFromBytesAtMost(data) ==
    IF Len(data) > 32 THEN [a |-> NewAddress, err |-> TRUE]
    ELSE [a |-> [data |-> copy(NewAddress.data, data)], err |-> FALSE]

\* AddressFromBytes: (a Address, err error)
AddressFromBytes(data) ==
    IF Len(data) # 32 THEN [a |-> NewAddress, err |-> TRUE]
    ELSE [a |-> [data |-> copy(NewAddress.data, data)], err |-> FALSE]

\* the values the setters are called with (the ones of TestAddressToBytes,
\* and the highest)
Uint32Inputs(k) ==
    {U32(65535, 65535), U32(4096 * k + 16 * k + k, 4096 * k + 256 * k + 16 * k + 9)}
Uint64Inputs ==
    {U64(U32(65535, 65535), U32(65535, 65535)), U64(U32(8226, 8745), U32(12339, 13113))}

\* the byte slices AddressFromBytes is called with: 32 bytes (all zero, all
\* 255, or the bytes 16 .. 47), cut or extended by up to MaxOff bytes, and
\* the empty slice
SliceInputs ==
    LET full == {[i \in 1..32 |-> 0], [i \in 1..32 |-> 255], [i \in 1..32 |-> 15 + i]}
    IN  {SubSeq(b, 1, 32 - k) : b \in full, k \in 0 .. MaxOff}
          \cup {b \o [i \in 1..k |-> 171] : b \in full, k \in 1 .. MaxOff}
          \cup {<<>>}

CallSetLayer ==
    /\ \E l \in Uint32Inputs(1) :
          /\ address' = SetLayer(address, l)
          /\ written' = [written EXCEPT !.layer = l]
    /\ UNCHANGED <<runVars, unit, calls, heap>>

CallSetTree ==
    /\ \E t \in Uint64Inputs :
          /\ address' = SetTree(address, t)
          /\ written' = [written EXCEPT !.tree = t]
    /\ UNCHANGED <<runVars, unit, calls, heap>>

CallSetType ==
    /\ \E t \in Uint32Inputs(4) :
          /\ address' = SetType(address, t)
          /\ written' = [written EXCEPT !.type = t]
    /\ UNCHANGED <<runVars, unit, calls, heap>>

CallSetOTS ==
    /\ \E o \in Uint32Inputs(5) :
          /\ address' = SetOTS(address, o)
          /\ written' = [written EXCEPT !.ots = o]
    /\ UNCHANGED <<runVars, unit, calls, heap>>

CallSetChain ==
    /\ \E c \in Uint32Inputs(6) :
          /\ address' = Address_setChain(address, c)
          /\ written' = [written EXCEPT !.chain = c]
    /\ UNCHANGED <<runVars, unit, calls, heap>>

CallSetHash ==
    /\ \E h \in Uint32Inputs(7) :
          /\ address' = Address_setHash(address, h)
          /\ written' = [written EXCEPT !.hash = h]
    /\ UNCHANGED <<runVars, unit, calls, heap>>

CallSetKeyAndMask ==
    /\ \E km \in Uint32Inputs(8) :
          /\ address' = Address_setKeyAndMask(address, km)
          /\ written' = [written EXCEPT !.km = km]
    /\ UNCHANGED <<runVars, unit, calls, heap>>

\* a, err := AddressFromBytes(data), and a.ToBytes() when err is nil
CallAddressFromBytes ==
    /\ \E data \in SliceInputs :
          LET r == AddressFromBytes(data)
          IN  unit' = [op |-> "AddressFromBytes", in |-> data, err |-> r.err,
                       out |-> IF r.err THEN <<>> ELSE ToBytes(r.a)]
    /\ UNCHANGED <<runVars, address, written, calls, heap>>

InitAddress ==
    /\ seed = "seed"
    /\ pubSeed = "pubSeed"
    /\ msg = ChainsMsg
    /\ opts = [Mode |-> W16, Address |-> ZeroAddress, Concurrency |-> 0, Hash |-> "0"]
    /\ pc = "start"
    /\ pk = None
    /\ sig = None
    /\ call = NoCall
    /\ NoChains
    /\ NoUnits

NextAddress ==
    \/ CallSetLayer
    \/ CallSetTree
    \/ CallSetType
    \/ CallSetOTS
    \/ CallSetChain
    \/ CallSetHash
    \/ CallSetKeyAndMask
    \/ CallAddressFromBytes

SpecAddress == InitAddress /\ [][NextAddress]_vars

\* ---------------------------------------------------------------------------
\* Two callers.  Each calls one primitive, in a mode of its own, and the two
\* calls run at the same time: a call makes its hasher, then derives the chain
\* lengths, then runs computeChains and returns, and the steps of the two
\* calls come in any order.  A hasher lives on the heap and a call reaches it
\* through the pointer newHasher returned.

\* h := new(hasher) with the hasher a package-level variable
newShared(hp) == 1

\* h := new(hasher): a reference that no other call holds
new(hp) == Len(hp) + 1

\* *ref = h
Store(hp, ref, h) ==
    IF ref > Len(hp) THEN Append(hp, h) ELSE [hp EXCEPT ![ref] = h]

TwoOpts ==
    [Mode : {W16}, Address : AddressInputs \ {ZeroAddress},
     Concurrency : 1 .. MaxRoutines, Hash : {"0"}]

InitTwo ==
    /\ seed = "seed"
    /\ pubSeed = "pubSeed"
    /\ msg = ChainsMsg
    /\ opts \in TwoOpts
    /\ pc = "start"
    /\ pk = None
    /\ sig = None
    /\ call = NoCall
    /\ NoChains
    /\ NoUnits

\* the Opts of a call in mode m
OptsOf(m) == [opts EXCEPT !.Mode = m]

\* the signature a caller of PublicKeyFromSig holds, made in mode m
SigOf(m) == Slice(Held(Sign(msg, seed, pubSeed, OptsOf(m), 1, 1)))

\* caller i calls the primitive op in mode m: params := opts.Mode.params(),
\* numRoutines := opts.routines(), h := newHasher(...)
EnterCall(i) ==
    /\ calls[i].pc = "idle"
    /\ \E op \in ChainsOps, m \in ValidModes :
          LET o   == OptsOf(m)
              nr  == routines(o, 1, 1)
              ref == new(heap)
          IN  /\ heap' = Store(heap, ref,
                               newHasher(IF op = "PublicKeyFromSig" THEN "nil" ELSE seed,
                                         pubSeed, o, nr))
              /\ calls' = [calls EXCEPT ![i] =
                             [pc |-> "hasher", op |-> op, opts |-> o,
                              params |-> params(m).p, numRoutines |-> nr, h |-> ref]]
    /\ UNCHANGED <<runVars, address, written, unit>>

\* the call of caller i goes on to its call of computeChains
LengthsCall(i) ==
    /\ calls[i].pc = "hasher"
    /\ LET f == calls[i]
           h == heap[f.h]
           a == CASE f.op = "GenPublicKey" ->
                       GenPublicKeyFrom(h, f.params, f.numRoutines, f.opts)
                  [] f.op = "Sign" ->
                       SignFrom(h, f.params, f.numRoutines, msg, f.opts)
                  [] f.op = "PublicKeyFromSig" ->
                       PublicKeyFromSigFrom(h, f.params, f.numRoutines,
                                            SigOf(f.opts.Mode), msg, f.opts)
       IN  calls' = [calls EXCEPT ![i] =
                       IF a.panic
                       THEN [pc |-> "returned", op |-> f.op, opts |-> f.opts, ret |-> Panic]
                       ELSE [pc |-> "chains", op |-> f.op, opts |-> f.opts,
                             params |-> f.params, numRoutines |-> f.numRoutines,
                             h |-> f.h, in |-> a.in, out |-> a.out,
                             lengths |-> a.lengths, fromSig |-> a.fromSig]]
    /\ UNCHANGED <<runVars, address, written, unit, heap>>

\* h.computeChains(...) of caller i's call, and the return of the primitive
ChainsCall(i) ==
    /\ calls[i].pc = "chains"
    /\ LET f == calls[i]
           r == computeChains(heap[f.h], f.numRoutines, f.in, f.out, f.lengths,
                              f.opts.Address, f.params, f.fromSig)
       IN  calls' = [calls EXCEPT ![i] =
                       [pc |-> "returned", op |-> f.op, opts |-> f.opts,
                        ret |-> IF r.panic THEN Panic ELSE Ok(r.out)]]
    /\ UNCHANGED <<runVars, address, written, unit, heap>>

NextTwo ==
    \/ \E i \in Callers : EnterCall(i)
    \/ \E i \in Callers : LengthsCall(i)
    \/ \E i \in Callers : ChainsCall(i)

SpecTwo == InitTwo /\ [][NextTwo]_vars

\* ---------------------------------------------------------------------------
\* Opts.routines and, on a hasher of each mode, baseW and checksum, called on
\* their own.  The functions keep no state between calls, so a run makes one
\* call.

MaxLen == 2     \* baseW gets byte strings of 0 .. MaxLen bytes
MaxWorkers == 135   \* computeChains is looked at for 1 .. MaxWorkers goroutines

\* the bytes of the strings baseW is called with
ByteInputs == {0, 1, 27, 128, 165, 255}
RECURSIVE BytesOfLen(_)
BytesOfLen(n) ==
    IF n = 0 THEN {<<>>}
    ELSE {Append(x, b) : x \in BytesOfLen(n - 1), b \in ByteInputs}

\* the message digits checksum is called with: l1 digits below w, all the
\* same, or running through the digits, or those of a message of a run
DigitInputs(p) ==
    {[i \in 1..p.l1 |-> d] : d \in {0, 1, 2, p.w - 2, p.w - 1}}
      \cup {[i \in 1..p.l1 |-> (i * 7) % p.w]}
      \cup {baseW(p, m, p.l1).d : m \in MsgInputs}

\* h.baseW(x, 8*len(x)/logW)
CallBaseW ==
    /\ unit.op = "none"
    /\ \E m \in ValidModes, n \in 0 .. MaxLen :
          \E x \in BytesOfLen(n) :
              LET p == params(m).p
                  r == baseW(p, x, GoDiv(8 * Len(x), p.logW))
              IN  unit' = [op |-> "baseW", mode |-> m, in |-> x, panic |-> r.panic,
                           out |-> r.d]
    /\ UNCHANGED <<runVars, address, written, calls, heap>>

\* h.checksum(msg)
CallChecksum ==
    /\ unit.op = "none"
    /\ \E m \in ValidModes :
          \E d \in DigitInputs(params(m).p) :
              unit' = [op |-> "checksum", mode |-> m, in |-> d, panic |-> FALSE,
                       out |-> checksum(params(m).p, d)]
    /\ UNCHANGED <<runVars, address, written, calls, heap>>

\* o.routines(), whatever the runtime answers
CallRoutines ==
    /\ unit.op = "none"
    /\ \E c \in ConcInputs, procs \in ProcInputs, cpus \in ProcInputs :
          unit' = [op |-> "routines", conc |-> c, procs |-> procs, cpus |-> cpus,
                   out |-> routines([opts EXCEPT !.Concurrency = c], procs, cpus)]
    /\ UNCHANGED <<runVars, address, written, calls, heap>>

\* the messages whose chain lengths are compared: those of the runs, the
\* lowest and the highest, and messages that differ in their first bytes only
PairInputs ==
    MsgInputs
      \cup {[i \in 1..N |-> 0], [i \in 1..N |-> 255]}
      \cup {[i \in 1..N |-> IF i = 1 THEN a ELSE IF i = 2 THEN 244 ELSE 255] :
                a \in {0, 246}}
      \cup {[i \in 1..N |-> IF i = 1 THEN 3 ELSE 2]}

\* the chain lengths Sign and PublicKeyFromSig derive from the message m in
\* mode md: lengths := h.baseW(msg, l1); lengths = append(lengths, csum...)
LengthsOf(md, m) == SignChains(m, seed, pubSeed, [opts EXCEPT !.Mode = md], 1, 1).lengths

\* the lengths of two messages, derived as Sign and PublicKeyFromSig do
CallLengths ==
    /\ unit.op = "none"
    /\ \E md \in ValidModes, m1 \in PairInputs, m2 \in PairInputs :
          unit' = [op |-> "lengths", mode |-> md, m1 |-> m1, m2 |-> m2,
                   l1 |-> LengthsOf(md, m1), l2 |-> LengthsOf(md, m2)]
    /\ UNCHANGED <<runVars, address, written, calls, heap>>

\* computeChains for each parameter set and each number of goroutines: the
\* chains each goroutine's loop goes through
CallPartition ==
    /\ unit.op = "none"
    /\ \E m \in ValidModes, numRoutines \in 1 .. MaxWorkers :
          unit' = [op |-> "partition", mode |-> m, numRoutines |-> numRoutines,
                   l |-> params(m).p.l,
                   chains |-> [nr \in 0 .. numRoutines - 1 |->
                                   loopChains(nr, numRoutines, params(m).p)]]
    /\ UNCHANGED <<runVars, address, written, calls, heap>>

\* the start and steps arguments of chain, both uint8: in range, and with a
\* sum past 255
StartInputs == {0, 1, 3, 200, 255}
StepsInputs == {0, 1, 2, 12, 56, 252, 255}
\* the hasher of a call with the Opts of the run
UnitHasher == newHasher(seed, pubSeed, opts, 1)
\* the in block of chain: a block of the private key, a block of the caller,
\* and a block that three steps of the same chain have produced
ChainBlockInputs(adrs) ==
    {Block(prfPrivSeed(UnitHasher, 0)), CallerBlock(1),
     chain(UnitHasher, Block(prfPrivSeed(UnitHasher, 0)), 0, 3, adrs).out}

\* h.chain(0, scratch, in, out, start, steps, &adrs)
CallChain ==
    /\ unit.op = "none"
    /\ \E start \in StartInputs, steps \in StepsInputs, adrs \in AddressInputs :
          \E in \in ChainBlockInputs(adrs) :
              \E r \in {chain(UnitHasher, in, start, steps, adrs)} :
                  unit' = [op |-> "chain", in |-> in, start |-> start, steps |-> steps,
                           adrs |-> adrs, out |-> r.out, adrsOut |-> r.adrs]
    /\ UNCHANGED <<runVars, address, written, calls, heap>>

\* the arguments with which a primitive reaches computeChains, in mode md on
\* the message m (PublicKeyFromSig on a signature of the caller)
UnitChains(op, md, m) ==
    LET o == [opts EXCEPT !.Mode = md]
    IN  CASE op = "GenPublicKey" -> GenPublicKeyChains(seed, pubSeed, o, 1, 1)
          [] op = "Sign" -> SignChains(m, seed, pubSeed, o, 1, 1)
          [] op = "PublicKeyFromSig" ->
                PublicKeyFromSigChains(Slice([i \in 1..params(md).p.l |-> CallerBlock(i)]),
                                       m, pubSeed, o, 1, 1)

\* a primitive reaches computeChains: the start and steps of each chain call
CallChainArgs ==
    /\ unit.op = "none"
    /\ \E op \in ChainsOps, md \in ValidModes, m \in PairInputs :
          \E a \in {UnitChains(op, md, m)} :
              unit' = [op |-> "chainArgs", prim |-> op, mode |-> md, in |-> m,
                       w |-> a.p.w, lengths |-> a.lengths,
                       args |-> [j \in 1..a.p.l |->
                                     chainArgs(a.lengths, a.p, a.fromSig, j - 1)]]
    /\ UNCHANGED <<runVars, address, written, calls, heap>>

\* the four primitives
PrfOps == {"GenPublicKey", "Sign", "PublicKeyFromSig", "Verify"}

\* the chain, hash and key-and-mask fields a caller may leave in Opts.Address
TailInputs ==
    {[chain |-> 0, hash |-> 0, km |-> 0],
     [chain |-> 4, hash |-> 5, km |-> 6],
     [chain |-> 65536, hash |-> 1, km |-> 1]}

\* the address a with these three fields
WithTail(a, t) == [a EXCEPT !.chain = t.chain, !.hash = t.hash, !.km = t.km]

\* the primitive prim called with Opts o on the message, and on the key and
\* the signature pkIn and sigIn
Primitive(prim, pkIn, sigIn, o) ==
    CASE prim = "GenPublicKey" -> GenPublicKey(seed, pubSeed, o, 1, 1)
      [] prim = "Sign" -> Sign(ChainsMsg, seed, pubSeed, o, 1, 1)
      [] prim = "PublicKeyFromSig" ->
            PublicKeyFromSig(Slice(sigIn), ChainsMsg, pubSeed, o, 1, 1)
      [] prim = "Verify" -> Verify(pkIn, Slice(sigIn), ChainsMsg, pubSeed, o, 1, 1)

\* a primitive is called twice, with Opts that differ only in the chain, hash
\* and key-and-mask fields of the address; the key and the signature are
\* those made with the first Opts
CallWithAddress ==
    /\ unit.op = "none"
    /\ \E prim \in PrfOps, md \in ValidModes, base \in AddressInputs :
          \E t \in TailInputs, u \in TailInputs :
              LET o     == [opts EXCEPT !.Mode = md, !.Address = WithTail(base, t)]
                  other == [o EXCEPT !.Address = WithTail(base, u)]
                  pkIn  == GenPublicKey(seed, pubSeed, o, 1, 1).val
                  sigIn == Sign(ChainsMsg, seed, pubSeed, o, 1, 1).val
              IN  unit' = [op |-> "withAddress", prim |-> prim, mode |-> md,
                           adrs |-> o.Address, adrsOther |-> other.Address,
                           ret |-> Primitive(prim, pkIn, sigIn, o),
                           retOther |-> Primitive(prim, pkIn, sigIn, other)]
    /\ UNCHANGED <<runVars, address, written, calls, heap>>

InitDigits == InitAddress

NextDigits ==
    \/ CallRoutines
    \/ CallBaseW
    \/ CallChecksum
    \/ CallLengths
    \/ CallPartition
    \/ CallChain
    \/ CallChainArgs
    \/ CallWithAddress

SpecDigits == InitDigits /\ [][NextDigits]_vars

\* ---------------------------------------------------------------------------
\* hasher.go, the digests.  A digest is what it has absorbed so far; the
\* hasher holds its digests by reference: one per goroutine (hashers[i], and
\* hasherVals[i] for the struct it points to) and the three precomputed ones.
\* The digest structs of the four supported hashes hold arrays only, so
\* assigning one to another copies all of its state.

\* v.Set(x) with the two values taken for each other: x gets the state of v
SetReversed(mem, v, x) == [mem EXCEPT ![x] = mem[v]]

\* reflect.Value.Set: the struct v refers to gets the state of the struct x
\* refers to
Set(mem, v, x) == [mem EXCEPT ![v] = mem[x]]

\* hash.Hash.Write: the digest absorbs data
Write(mem, d, data) == [mem EXCEPT ![d] = Append(@, data)]

\* hash.Hash.Sum(b[:0]): the hash of what the digest has absorbed; the digest
\* is left as it is
Sum(mem, d) == [t |-> "H", in |-> mem[d]]

\* newHasher: nrRoutines fresh digests, then the precomputed ones: 32 zero
\* bytes for hashF, and the padding ending in 3 followed by the seed for the
\* two PRFs (none for a nil private seed)
hasher_newHasher(privSeed, pubSeedIn, nrRoutines) ==
    LET hashers == [i \in 1..nrRoutines |-> <<>>]
        withF   == Append(hashers, <<"pad0">>)
        withPriv == IF privSeed # "nil" THEN Append(withF, <<"pad3", privSeed>>)
                    ELSE withF
        withPub == Append(withPriv, <<"pad3", pubSeedIn>>)
    IN  [mem |-> withPub,
         hasherVals |-> [i \in 1..nrRoutines |-> i],
         precompHashF |-> nrRoutines + 1,
         precompPrfPrivSeed |-> IF privSeed # "nil" THEN nrRoutines + 2 ELSE 0,
         precompPrfPubSeed |-> Len(withPub)]

\* h.hashF(routineNr, key, inout): [panic, mem, out]
hasher_hashF(h, routineNr, key, inout) ==
    LET d  == h.hasherVals[routineNr + 1]
        m1 == Set(h.mem, d, h.precompHashF)
        m2 == Write(m1, d, key)
        m3 == Write(m2, d, inout)
    IN  [panic |-> FALSE, mem |-> m3, out |-> Sum(m3, d)]

\* h.prfPubSeed(routineNr, addr, out)
hasher_prfPubSeed(h, routineNr, addr) ==
    LET d  == h.hasherVals[routineNr + 1]
        m1 == Set(h.mem, d, h.precompPrfPubSeed)
        m2 == Write(m1, d, addr)
    IN  [panic |-> FALSE, mem |-> m2, out |-> Sum(m2, d)]

\* h.prfPrivSeed(routineNr, ctr, out); Set panics on the zero Value that
\* precompPrfPrivSeed is when the hasher was made without a private seed
hasher_prfPrivSeed(h, routineNr, ctr) ==
    IF h.precompPrfPrivSeed = 0 THEN [panic |-> TRUE, mem |-> h.mem, out |-> <<>>]
    ELSE LET d  == h.hasherVals[routineNr + 1]
             m1 == Set(h.mem, d, h.precompPrfPrivSeed)
             m2 == Write(m1, d, ctr)
         IN  [panic |-> FALSE, mem |-> m2, out |-> Sum(m2, d)]

\* the data of the calls
KeyInputs == {"key1", "key2"}
InoutInputs == {"block1", "block2"}
AddrInputs == {"adrs1", "adrs2"}
CtrInputs == {"ctr0", "ctr1"}

\* a hasher with MaxRoutines digests, with and without the private seed
InitHasher ==
    /\ seed = "seed"
    /\ pubSeed = "pubSeed"
    /\ msg = ChainsMsg
    /\ opts = [Mode |-> W16, Address |-> ZeroAddress, Concurrency |-> 0, Hash |-> "0"]
    /\ pc = "start"
    /\ pk = None
    /\ sig = None
    /\ call = NoCall
    /\ NoChains
    /\ calls = [i \in Callers |-> NoFrame]
    /\ address = NewAddress
    /\ written = [layer |-> U32(0, 0), tree |-> U64(U32(0, 0), U32(0, 0)), type |-> U32(0, 0),
                  ots |-> U32(0, 0), chain |-> U32(0, 0), hash |-> U32(0, 0),
                  km |-> U32(0, 0)]
    /\ unit = [op |-> "none"]
    /\ \E privSeed \in {seed, "nil"} :
          heap = hasher_newHasher(privSeed, pubSeed, MaxRoutines)

CallHashF(routineNr) ==
    /\ \E key \in KeyInputs, inout \in InoutInputs :
          \E r \in {hasher_hashF(heap, routineNr, key, inout)} :
              /\ heap' = [heap EXCEPT !.mem = r.mem]
              /\ unit' = [op |-> "hashF", nr |-> routineNr, panic |-> r.panic,
                          in |-> <<key, inout>>, out |-> r.out]
    /\ UNCHANGED <<runVars, address, written, calls>>

CallPrfPubSeed(routineNr) ==
    /\ \E addr \in AddrInputs :
          \E r \in {hasher_prfPubSeed(heap, routineNr, addr)} :
              /\ heap' = [heap EXCEPT !.mem = r.mem]
              /\ unit' = [op |-> "prfPubSeed", nr |-> routineNr, panic |-> r.panic,
                          in |-> <<addr>>, out |-> r.out]
    /\ UNCHANGED <<runVars, address, written, calls>>

CallPrfPrivSeed(routineNr) ==
    /\ \E ctr \in CtrInputs :
          \E r \in {hasher_prfPrivSeed(heap, routineNr, ctr)} :
              /\ heap' = [heap EXCEPT !.mem = r.mem]
              /\ unit' = [op |-> "prfPrivSeed", nr |-> routineNr, panic |-> r.panic,
                          in |-> <<ctr>>, out |-> r.out]
    /\ UNCHANGED <<runVars, address, written, calls>>

NextHasher ==
    \/ \E routineNr \in 0 .. MaxRoutines - 1 : CallHashF(routineNr)
    \/ \E routineNr \in 0 .. MaxRoutines - 1 : CallPrfPubSeed(routineNr)
    \/ \E routineNr \in 0 .. MaxRoutines - 1 : CallPrfPrivSeed(routineNr)

SpecHasher == InitHasher /\ [][NextHasher]_vars

\* ---------------------------------------------------------------------------
\* The calls a primitive makes on its hasher, in the order of the code:
\* newHasher, then (GenPublicKey and Sign) expandSeed, then computeChains with
\* its go statements and its goroutines.  unit.log is the set of the calls
\* made: the function, the hasher context, the primitive, and how many
\* goroutines had been started.

PrfOpts == [Mode : {W256}, Address : {ZeroAddress}, Concurrency : 1 .. MaxRoutines, Hash : {"0"}]

\* every primitive calls expandSeed after newHasher
callsExpandSeedAlways(op) == TRUE

\* privKey := h.expandSeed() is in GenPublicKey and in Sign
callsExpandSeed(op) == op \in {"GenPublicKey", "Sign"}

\* the primitive up to its call of computeChains; Verify is PublicKeyFromSig
\* and a comparison
PrfChains(op) ==
    UnitChains(IF op = "Verify" THEN "PublicKeyFromSig" ELSE op, opts.Mode, msg)

\* h.chain on context routineNr: every iteration of its loop calls
\* prfPubSeed twice and hashF once, each call setting the digest anew, so the
\* digest is left as the last iteration leaves it; no iteration, no call
hasher_chain(h, routineNr, chainIdx, start, steps) ==
    IF uint8(start + steps) > start
    THEN LET adrs == "adrs" \o ToString(chainIdx)
             k    == hasher_prfPubSeed(h, routineNr, adrs)
             m    == hasher_prfPubSeed([h EXCEPT !.mem = k.mem], routineNr, adrs)
             f    == hasher_hashF([h EXCEPT !.mem = m.mem], routineNr, "key", "inout")
         IN  [mem |-> f.mem, calls |-> {"prfPubSeed", "hashF"}]
    ELSE [mem |-> h.mem, calls |-> {}]

InitPrf ==
    /\ seed = "seed"
    /\ pubSeed = "pubSeed"
    /\ msg = ChainsMsg
    /\ opts \in PrfOpts
    /\ pc = "start"
    /\ pk = None
    /\ sig = None
    /\ call = NoCall
    /\ NoChains
    /\ calls = [i \in Callers |-> NoFrame]
    /\ heap = <<>>
    /\ address = NewAddress
    /\ written = [layer |-> U32(0, 0), tree |-> U64(U32(0, 0), U32(0, 0)), type |-> U32(0, 0),
                  ots |-> U32(0, 0), chain |-> U32(0, 0), hash |-> U32(0, 0),
                  km |-> U32(0, 0)]
    /\ unit = [op |-> "calls", i |-> 0, log |-> {}]

\* the primitive is entered and makes its hasher
EnterPrimitive ==
    /\ pc = "start"
    /\ \E op \in PrfOps :
          \E a \in {PrfChains(op)} :
              /\ call' = [NoCall EXCEPT !.op = op, !.conc = opts.Concurrency]
              /\ chains' = a
              /\ heap' = hasher_newHasher(a.h.priv, a.h.pub, a.numRoutines)
              /\ pc' = IF callsExpandSeed(op) THEN "expandSeed" ELSE "computeChains"
    /\ UNCHANGED <<seed, pubSeed, msg, opts, pk, sig, output, routine, done, received,
                   address, written, unit, calls>>

\* expandSeed, one iteration: h.prfPrivSeed(0, ctr, privKey[i*N:])
ExpandSeedLoop ==
    /\ pc = "expandSeed"
    /\ \E r \in {hasher_prfPrivSeed(heap, 0, ToString(uint16(unit.i)))} :
          /\ heap' = [heap EXCEPT !.mem = r.mem]
          /\ unit' = [unit EXCEPT !.i = @ + 1,
                                  !.log = @ \cup {[f |-> "prfPrivSeed", nr |-> 0,
                                                   op |-> call.op,
                                                   started |-> Len(routine)]}]
          /\ pc' = IF r.panic THEN "done"
                   ELSE IF unit.i + 1 < chains.p.l THEN pc ELSE "computeChains"
          /\ call' = IF r.panic THEN [call EXCEPT !.ret = Panic] ELSE call
    /\ UNCHANGED <<seed, pubSeed, msg, opts, pk, sig, chains, output, routine, done, received,
                   address, written, calls>>

\* computeChains, one go statement
GoStatement ==
    /\ pc = "computeChains"
    /\ Len(routine) < chains.numRoutines
    /\ LET cpr == chainsPerRoutineOf(chains.p, chains.numRoutines)
           nr  == Len(routine)
       IN  routine' = Append(routine, [pc |-> "loop",
                                       chainIdx |-> firstChainOf(nr, cpr),
                                       lastChain |-> lastChainOf(nr, cpr, chains.p)])
    /\ UNCHANGED <<seed, pubSeed, msg, opts, pc, pk, sig, call, chains, output, done, received,
                   unitVars>>

\* a started goroutine runs one iteration of its loop, or sends on done
RoutineChain(nr) ==
    /\ pc = "computeChains"
    /\ nr < Len(routine)
    /\ routine[nr + 1].pc = "loop"
    /\ LET g == routine[nr + 1]
       IN  IF g.chainIdx <= g.lastChain
           THEN \E a \in {chainArgs(chains.lengths, chains.p, chains.fromSig, g.chainIdx)} :
                  \E r \in {hasher_chain(heap, nr, g.chainIdx, a.start, a.steps)} :
                     /\ heap' = [heap EXCEPT !.mem = r.mem]
                     /\ unit' = [unit EXCEPT !.log = @ \cup
                                    {[f |-> c, nr |-> nr, op |-> call.op,
                                      started |-> Len(routine)] : c \in r.calls}]
                     /\ routine' = [routine EXCEPT ![nr + 1].chainIdx = @ + 1]
                     /\ done' = done
           ELSE /\ routine' = [routine EXCEPT ![nr + 1].pc = "exited"]
                /\ done' = done + 1
                /\ UNCHANGED <<heap, unit>>
    /\ UNCHANGED <<seed, pubSeed, msg, opts, pc, pk, sig, call, chains, output, received,
                   address, written, calls>>

\* every goroutine has sent: computeChains and the primitive return
ReturnPrimitive ==
    /\ pc = "computeChains"
    /\ Len(routine) = chains.numRoutines
    /\ done = chains.numRoutines
    /\ pc' = "done"
    /\ received' = done
    /\ call' = [call EXCEPT !.ret = Ok(<<>>)]
    /\ UNCHANGED <<seed, pubSeed, msg, opts, pk, sig, chains, output, routine, done, unitVars>>

NextPrf ==
    \/ EnterPrimitive
    \/ ExpandSeedLoop
    \/ GoStatement
    \/ \E nr \in 0 .. MaxRoutines - 1 : RoutineChain(nr)
    \/ ReturnPrimitive

SpecPrf == InitPrf /\ [][NextPrf]_vars

\* ---------------------------------------------------------------------------
\* Properties

\* the Opts of the run select a parameter set and a supported hash
ValidOpts == opts.Mode \in ValidModes /\ ~hash(opts).err
\* the last call was made with the Opts of the run, Concurrency included
SameOpts == call.conc = opts.Concurrency
\* the last call got the key, the signature and the message unaltered
Unaltered == call.pkv = AsIs /\ call.sigv = AsIs /\ call.msgv = AsIs
\* the last call got a key, a signature and a message of the right lengths
RightLengths ==
    /\ call.pkv.t \in {"asis", "flip"}
    /\ call.sigv.t \in {"asis", "flip"}
    /\ call.msgv.t \in {"asis", "flip"}

\* C1: Verify accepts the signature Sign made, under the public key
\* GenPublicKey made, for the same message, seeds and Opts.
RoundTrip ==
    (call.op = "Verify" /\ ValidOpts /\ SameOpts /\ Unaltered)
        => call.ret = Ok(TRUE)

RoundTripWitness ==
    /\ call.op = "Verify" /\ ValidOpts /\ SameOpts /\ Unaltered
    /\ opts.Mode = W256 /\ opts.Concurrency = MaxConc /\ opts.Hash = "BLAKE2b_256"
    /\ pk.kind = "ok" /\ sig.kind = "ok" /\ Len(sig.val) = 34
    /\ call.ret = Ok(TRUE)

\* C2: PublicKeyFromSig on the signature Sign made returns, block for block,
\* the public key GenPublicKey made for the same seeds and Opts.
PkRecovery ==
    (call.op = "PublicKeyFromSig" /\ ValidOpts /\ SameOpts /\ Unaltered)
        => (pk.kind = "ok" /\ call.ret = pk)

PkRecoveryWitness ==
    /\ call.op = "PublicKeyFromSig" /\ ValidOpts /\ SameOpts /\ Unaltered
    /\ opts.Mode = W4 /\ opts.Address # ZeroAddress
    /\ call.ret.kind = "ok" /\ Len(call.ret.val) = 133
    /\ call.ret.val = pk.val

\* the primitive op called as a whole on the arguments of the run, with
\* Concurrency c and the runtime's answers env
WholeCall(op, c, env) ==
    LET o == [opts EXCEPT !.Concurrency = c]
    IN  CASE op = "GenPublicKey" -> GenPublicKey(seed, pubSeed, o, env[1], env[2])
          [] op = "Sign" -> Sign(msg, seed, pubSeed, o, env[1], env[2])
          [] op = "PublicKeyFromSig" ->
                PublicKeyFromSig(Slice(Held(sig)), msg, pubSeed, o, env[1], env[2])

\* C3: whatever the order in which the goroutines of a GenPublicKey, Sign or
\* PublicKeyFromSig call take their steps, the call returns the bytes that
\* the same call returns with any other Concurrency (0, negative, 1 ..
\* MaxConc, and BigConc, which is above every l).
InterleavingInvariant ==
    (pc = "done" /\ call.op \in ChainsOps /\ routine # <<>>) =>
        \A c \in ConcInputs : \A env \in Envs(c) :
            call.ret = WholeCall(call.op, c, env)

InterleavingInvariantWitness ==
    /\ pc = "done" /\ call.op = "PublicKeyFromSig"
    /\ opts.Mode = W16 /\ opts.Concurrency = MaxRoutines
    /\ Len(routine) = MaxRoutines /\ received = MaxRoutines
    /\ \A i \in 1..Len(routine) : routine[i].pc = "exited"
    /\ call.ret.kind = "ok" /\ Len(call.ret.val) = 67
    /\ call.ret = pk

\* C3 for whole calls, in every mode and with every hash: a primitive called
\* with an Opts that differs from the Opts of the run only in Concurrency
\* returns the bytes it returns with the Opts of the run.
ConcurrencyInvariant ==
    (ValidOpts /\ Unaltered) =>
        /\ call.op = "GenPublicKey" => call.ret = pk
        /\ call.op = "Sign" => call.ret = sig
        /\ call.op = "PublicKeyFromSig" =>
              \A env \in Envs(opts.Concurrency) :
                  call.ret = PublicKeyFromSig(Slice(Held(sig)), msg, pubSeed, opts,
                                              env[1], env[2])

\* C4: with the key and signature of the run, Verify returns false when one
\* bit of the signature or one bit of the message was flipped.
TamperDetected ==
    (/\ call.op = "Verify" /\ ValidOpts /\ call.pkv = AsIs
     /\ \/ call.sigv.t = "flip" /\ call.msgv = AsIs
        \/ call.msgv.t = "flip" /\ call.sigv = AsIs)
        => call.ret = Ok(FALSE)

TamperDetectedWitness ==
    /\ call.op = "Verify" /\ ValidOpts /\ call.pkv = AsIs /\ call.sigv = AsIs
    /\ call.msgv = Var("flip", 8 * N - 1)
    /\ opts.Mode = W256
    /\ pk.kind = "ok" /\ sig.kind = "ok"
    /\ call.ret = Ok(FALSE)

\* C5: a primitive called with a Mode outside {W4, W16, W256} returns an
\* error (and no bytes) to its caller.
InvalidModeReported ==
    (call.op # "none" /\ opts.Mode \notin ValidModes) => call.ret.kind = "err"

\* C6: Sign and PublicKeyFromSig return an error when the message is not N
\* bytes long, and PublicKeyFromSig when the signature is not l*N bytes long.
WrongLengthReported ==
    (/\ ValidOpts
     /\ \/ call.op \in {"Sign", "PublicKeyFromSig"} /\ call.msgv.t \in {"short", "long"}
        \/ call.op = "PublicKeyFromSig" /\ call.sigv.t \in {"short", "resliced", "long"})
        => call.ret.kind = "err"

\* C7: Verify returns false, and does not panic, when the public key or the
\* signature is not l*N bytes long.
WrongLengthRejected ==
    (/\ call.op = "Verify" /\ ValidOpts
     /\ \/ call.pkv.t \in {"short", "resliced", "long"}
        \/ call.sigv.t \in {"short", "resliced", "long"})
        => call.ret = Ok(FALSE)

\* C8: on inputs of the right lengths and valid Opts, Verify returns a
\* boolean, and that boolean is false when the key, the signature or the
\* message is not the one of the run; it never reports a mismatch otherwise.
MismatchIsFalse ==
    (call.op = "Verify" /\ ValidOpts /\ RightLengths)
        => /\ call.ret.kind = "ok"
           /\ call.ret.val \in BOOLEAN
           /\ ~Unaltered => call.ret.val = FALSE

MismatchIsFalseWitness ==
    /\ call.op = "Verify" /\ ValidOpts /\ RightLengths
    /\ call.pkv = Var("flip", 1) /\ call.sigv = AsIs /\ call.msgv = AsIs
    /\ pk.kind = "ok" /\ sig.kind = "ok"
    /\ call.ret = Ok(FALSE)

\* C9: a primitive called with a Hash that is neither 0 nor one of the four
\* supported hashes returns an error to its caller.
UnsupportedHashReported ==
    (call.op # "none" /\ hash(opts).err) => call.ret.kind = "err"

\* C10: the parameters the calls of a run use are those of the table, (w,
\* logW, l1, l2, l) = (4, 2, 128, 5, 133) for W4, (16, 4, 64, 3, 67) for W16
\* and (256, 8, 32, 2, 34) for W256, with l = l1 + l2, w = 2^logW and
\* l1 * logW = 8 * N.
ParamsTable ==
    LET r == params(opts.Mode)
    IN  opts.Mode \in ValidModes =>
          /\ ~r.err
          /\ opts.Mode = W4 => r.p = [w |-> 4, logW |-> 2, l1 |-> 128, l2 |-> 5, l |-> 133]
          /\ opts.Mode = W16 => r.p = [w |-> 16, logW |-> 4, l1 |-> 64, l2 |-> 3, l |-> 67]
          /\ opts.Mode = W256 => r.p = [w |-> 256, logW |-> 8, l1 |-> 32, l2 |-> 2, l |-> 34]
          /\ r.p.l = r.p.l1 + r.p.l2
          /\ r.p.w = Pow2(r.p.logW)
          /\ r.p.l1 * r.p.logW = 8 * N

ParamsTableWitness ==
    /\ opts.Mode = W256 /\ ~hash(opts).err
    /\ params(opts.Mode).p.l = 34
    /\ pk.kind = "ok" /\ Len(pk.val) = params(opts.Mode).p.l
    /\ sig.kind = "ok" /\ Len(sig.val) = params(opts.Mode).p.l

\* C11: a run whose Opts has the zero Mode (the field was never set) works
\* with the w = 16 parameters: the key and the signature have 67 blocks and
\* every chain of the key is 15 steps long.
DefaultModeIsW16 ==
    (opts.Mode = 0 /\ ~hash(opts).err) =>
        /\ params(opts.Mode).p = [w |-> 16, logW |-> 4, l1 |-> 64, l2 |-> 3, l |-> 67]
        /\ pc # "start" =>
              /\ pk.kind = "ok" /\ Len(pk.val) = 67
              /\ \A i \in 1..Len(pk.val) :
                    Len(pk.val[i].run) = 1 /\ pk.val[i].run[1].n = 15
        /\ pc \in {"haveSig", "done"} => (sig.kind = "ok" /\ Len(sig.val) = 67)
        /\ (call.op = "PublicKeyFromSig" /\ Unaltered) => call.ret = pk

DefaultModeIsW16Witness ==
    /\ opts.Mode = 0 /\ opts.Hash = "0" /\ opts.Concurrency = 0
    /\ pk.kind = "ok" /\ Len(pk.val) = 67 /\ pk.val[67].run[1].n = 15
    /\ sig.kind = "ok" /\ Len(sig.val) = 67
    /\ call.op = "Verify" /\ Unaltered /\ SameOpts /\ call.ret = Ok(TRUE)

\* the exported size constants of a mode
PublicKeyBytes(m) ==
    CASE m = W4 -> W4PublicKeyBytes [] m = W16 -> W16PublicKeyBytes
      [] m = W256 -> W256PublicKeyBytes
SignatureBytes(m) ==
    CASE m = W4 -> W4Bytes [] m = W16 -> W16Bytes [] m = W256 -> W256Bytes
\* every block of b was written by a chain evaluation (none is still the
\* zero block that make left)
Written(b) == \A i \in 1..Len(b) : b[i] # ZeroBlock /\ b[i].org.t # "zero"

\* C12: with a valid mode and hash and inputs of the right lengths,
\* GenPublicKey, Sign and PublicKeyFromSig return l*N bytes, which is the
\* exported size of the mode (4256, 2144, 1088), and every block of the
\* result was written by a chain evaluation.
OutputSizes ==
    ValidOpts =>
        /\ pc # "start" =>
              /\ pk.kind = "ok" /\ Written(pk.val)
              /\ Len(pk.val) * N = PublicKeyBytes(opts.Mode)
        /\ pc \in {"haveSig", "done"} =>
              /\ sig.kind = "ok" /\ Written(sig.val)
              /\ Len(sig.val) * N = SignatureBytes(opts.Mode)
        /\ (call.op \in {"GenPublicKey", "Sign", "PublicKeyFromSig"} /\ RightLengths) =>
              /\ call.ret.kind = "ok" /\ Written(call.ret.val)
              /\ Len(call.ret.val) * N = params(opts.Mode).p.l * N
              /\ Len(call.ret.val) * N =
                    IF call.op = "Sign" THEN SignatureBytes(opts.Mode)
                    ELSE PublicKeyBytes(opts.Mode)

OutputSizesWitness ==
    /\ ValidOpts /\ opts.Mode = W4 /\ call.conc = BigConc
    /\ call.op = "PublicKeyFromSig" /\ RightLengths
    /\ call.ret.kind = "ok" /\ Len(call.ret.val) * N = 4256 /\ Written(call.ret.val)
    /\ Len(sig.val) * N = 4256

\* C13: whatever the worker count, a primitive that returns leaves the
\* address where it found it: the address in the Opts it was called with
\* (adrs := &opts.Address, handed to computeChains) is at the return the
\* address of the caller's Opts, which is what it was before the call.
AddressNotMutated ==
    (call.op # "none" /\ call.ret.kind = "ok") => call.adrs = opts.Address

AddressNotMutatedWitness ==
    /\ call.op = "Verify" /\ call.ret = Ok(TRUE) /\ call.conc = 2
    /\ opts.Address # ZeroAddress /\ call.adrs = opts.Address
    /\ opts.Mode = W4

Min(a, b) == IF a <= b THEN a ELSE b

\* C15: the worker count Opts.routines returns is Concurrency when that is
\* positive, 1 when it is 0, and the lower of NumCPU and GOMAXPROCS when it is
\* negative; it is never below 1.
WorkerCountRule ==
    unit.op = "routines" =>
        /\ unit.conc > 0 => unit.out = unit.conc
        /\ unit.conc = 0 => unit.out = 1
        /\ unit.conc < 0 => unit.out = Min(unit.cpus, unit.procs)
        /\ unit.out >= 1

WorkerCountRuleWitness ==
    /\ unit.op = "routines" /\ unit.conc < 0 /\ unit.procs = 2 /\ unit.cpus = 1
    /\ unit.out = 1

\* C16: AddressFromBytes of a slice of 32 bytes succeeds and ToBytes of the
\* address it returns gives the same 32 bytes; for a slice of any other
\* length AddressFromBytes returns an error.
AddressRoundTrip ==
    unit.op = "AddressFromBytes" =>
        /\ Len(unit.in) = 32 => (~unit.err /\ unit.out = unit.in)
        /\ Len(unit.in) # 32 => unit.err

AddressRoundTripWitness ==
    /\ unit.op = "AddressFromBytes" /\ Len(unit.in) = 32 /\ ~unit.err
    /\ unit.out = unit.in /\ unit.in[1] = 16 /\ unit.in[32] = 47

\* the uint32 that b[off .. off+3] holds, most significant byte first
BigEndian32(b, off) == U32(b[off + 1] * 256 + b[off + 2], b[off + 3] * 256 + b[off + 4])

\* C17: after any sequence of setter calls every field of the address holds,
\* big-endian in its window (layer [0,4), tree [4,12), type [12,16), ots
\* [16,20), chain [20,24), hash [24,28), key-and-mask [28,32)), the value its
\* setter was last called with (zero when it never was): a setter writes its
\* own window and no other byte.
SettersLayout ==
    LET b == ToBytes(address)
    IN  /\ Len(b) = 32
        /\ BigEndian32(b, 0) = written.layer
        /\ U64(BigEndian32(b, 4), BigEndian32(b, 8)) = written.tree
        /\ BigEndian32(b, 12) = written.type
        /\ BigEndian32(b, 16) = written.ots
        /\ BigEndian32(b, 20) = written.chain
        /\ BigEndian32(b, 24) = written.hash
        /\ BigEndian32(b, 28) = written.km

\* the address of TestAddressToBytes
SettersLayoutWitness ==
    ToBytes(address) = <<16, 17, 17, 25, 32, 34, 34, 41, 48, 51, 51, 57, 64, 68, 68, 73,
                         80, 85, 85, 89, 96, 102, 102, 105, 112, 119, 119, 121,
                         128, 136, 136, 137>>

RECURSIVE Pow(_, _)
Pow(b, k) == IF k = 0 THEN 1 ELSE b * Pow(b, k - 1)

\* the number whose digits in base w, most significant first, are d[first..last]
RECURSIVE FromDigits(_, _, _, _)
FromDigits(d, w, first, last) ==
    IF first > last THEN 0
    ELSE FromDigits(d, w, first, last - 1) * w + d[last]

\* C18: for a byte string x and a hasher of any mode (logW 2, 4 or 8),
\* baseW(x, 8*len(x)/logW) returns 8*len(x)/logW digits, all below w, and
\* each run of 8/logW digits, read most significant digit first, is the byte
\* of x at its place.
BaseWRoundTrip ==
    unit.op = "baseW" =>
        LET p   == params(unit.mode).p
            per == 8 \div p.logW
        IN  /\ ~unit.panic
            /\ Len(unit.out) = per * Len(unit.in)
            /\ \A i \in 1..Len(unit.out) : unit.out[i] \in 0 .. p.w - 1
            /\ \A j \in 1..Len(unit.in) :
                  FromDigits(unit.out, p.w, (j - 1) * per + 1, j * per) = unit.in[j]

BaseWRoundTripWitness ==
    /\ unit.op = "baseW" /\ unit.mode = W4 /\ unit.in = <<27, 165>>
    /\ unit.out = <<0, 1, 2, 3, 2, 2, 1, 1>>

\* C = the sum of w - 1 - d[i] over d[first..last]
RECURSIVE SumC(_, _, _, _)
SumC(d, w, first, last) ==
    IF first > last THEN 0
    ELSE IF first = last THEN w - 1 - d[first]
    ELSE LET mid == (first + last) \div 2
         IN  SumC(d, w, first, mid) + SumC(d, w, mid + 1, last)

\* the l digits of c in base w, most significant first
ToDigits(c, w, l) == [i \in 1..l |-> (c \div Pow(w, l - i)) % w]

\* C19: for every mode and every l1 message digits below w, checksum returns
\* the l2 digits of C = sum of (w - 1 - digit) in base w, most significant
\* first: the shift and the truncation to two bytes lose no bit of C.
ChecksumValue ==
    unit.op = "checksum" =>
        LET p == params(unit.mode).p
        IN  unit.out = ToDigits(SumC(unit.in, p.w, 1, p.l1), p.w, p.l2)

\* the checksum is the one of C19 in the modes W4 and W16
ChecksumValueW4W16 ==
    (unit.op = "checksum" /\ unit.mode \in {W4, W16}) =>
        LET p == params(unit.mode).p
        IN  unit.out = ToDigits(SumC(unit.in, p.w, 1, p.l1), p.w, p.l2)

\* in the mode W256 the checksum is the low byte of C followed by 0
ChecksumW256 ==
    (unit.op = "checksum" /\ unit.mode = W256) =>
        unit.out = <<SumC(unit.in, 256, 1, 32) % 256, 0>>

\* what the call of frame f returns when no other call runs
Alone(f) ==
    CASE f.op = "GenPublicKey" -> GenPublicKey(seed, pubSeed, f.opts, 1, 1)
      [] f.op = "Sign" -> Sign(msg, seed, pubSeed, f.opts, 1, 1)
      [] f.op = "PublicKeyFromSig" ->
            PublicKeyFromSig(SigOf(f.opts.Mode), msg, pubSeed, f.opts, 1, 1)

\* C14: of two primitive calls that run at the same time, in the same or in
\* different modes, each returns the bytes it returns when it runs alone: no
\* call reads a parameter set or a hasher that the other one wrote.
NoHiddenGlobalState ==
    \A i \in Callers :
        calls[i].pc = "returned" =>
            /\ calls[i].ret.kind = "ok"
            /\ calls[i].ret = Alone(calls[i])

NoHiddenGlobalStateWitness ==
    /\ calls[1].pc = "returned" /\ calls[1].op = "Sign" /\ calls[1].opts.Mode = W16
    /\ calls[2].pc = "returned" /\ calls[2].op = "PublicKeyFromSig"
    /\ calls[2].opts.Mode = W4
    /\ Len(heap) = 2 /\ heap[1].params.w = 4 /\ heap[2].params.w = 16
    /\ calls[1].ret = Alone(calls[1]) /\ calls[2].ret = Alone(calls[2])
    /\ Len(calls[1].ret.val) = 67 /\ Len(calls[2].ret.val) = 133

\* C21: for every mode and any two distinct messages of 32 bytes, the chain
\* lengths of the second (base-w digits followed by the checksum digits) are
\* below those of the first at some chain index, so advancing chains never
\* turns a signature of the first into one of the second.
ChecksumDomination ==
    (unit.op = "lengths" /\ unit.m1 # unit.m2) =>
        \E j \in 1..Len(unit.l1) : unit.l2[j] < unit.l1[j]

\* the lengths dominate in the modes W4 and W16
ChecksumDominationW4W16 ==
    (unit.op = "lengths" /\ unit.m1 # unit.m2 /\ unit.mode \in {W4, W16}) =>
        /\ Len(unit.l1) = params(unit.mode).p.l /\ Len(unit.l2) = Len(unit.l1)
        /\ \E j \in 1..Len(unit.l1) : unit.l2[j] < unit.l1[j]

\* in the mode W256 the signature of (0, 244, 255, ...) is advanced to one
\* of (246, 244, 255, ...): no chain length goes down
ChecksumDominationLostW256 ==
    ~(/\ unit.op = "lengths" /\ unit.mode = W256
      /\ unit.m1[1] = 0 /\ unit.m2[1] = 246 /\ unit.m1[2] = 244 /\ unit.m2[2] = 244
      /\ unit.l1 = unit.m1 \o <<10, 0>> /\ unit.l2 = unit.m2 \o <<20, 0>>)

\* C22: for each parameter set and every number of goroutines from 1 on, every
\* chain index in [0, l) is in the loop of exactly one goroutine, and no
\* goroutine's loop reaches an index outside [0, l); a goroutine with an empty
\* range goes through no chain at all.
PartitionCoverage ==
    unit.op = "partition" =>
        /\ \A j \in 0 .. unit.l - 1 :
              \E nr \in DOMAIN unit.chains :
                  /\ j \in unit.chains[nr]
                  /\ \A other \in DOMAIN unit.chains :
                        j \in unit.chains[other] => other = nr
        /\ \A nr \in DOMAIN unit.chains : unit.chains[nr] \subseteq 0 .. unit.l - 1

\* W256 with 35 goroutines: one chain each for the first 34, none for the last
PartitionCoverageWitness ==
    /\ unit.op = "partition" /\ unit.mode = W256 /\ unit.numRoutines = 35
    /\ unit.chains[33] = {33}
    /\ unit.chains[34] = {}

\* W16 with 10 goroutines of 7 chains: the last one gets the 4 chains left
PartitionLastShorter ==
    ~(/\ unit.op = "partition" /\ unit.mode = W16 /\ unit.numRoutines = 10
      /\ unit.chains[8] = 56 .. 62
      /\ unit.chains[9] = 63 .. 66)
\* two byte ranges of the same resource that have a byte in common
Overlap(x, y) == x.res = y.res /\ x.lo <= y.hi /\ y.lo <= x.hi

\* C23: at every point of every interleaving of computeChains no two goroutines
\* have written the same byte of out, the same byte of the scratch pad, the
\* same address array or the same hasher context; goroutine k has written only
\* the out blocks of its own chains, scratch[64k, 64k+64), its own address copy
\* and hasher context k, with k below the number of goroutines and of contexts.
WorkerIsolation ==
    (pc \in {"chains", "done"} /\ routine # <<>>) =>
        /\ \A a \in 1..Len(routine) :
              \A b \in a + 1 .. Len(routine) :
                  \A x \in routine[a].writes :
                      \A y \in routine[b].writes : ~Overlap(x, y)
        /\ \A a \in 1..Len(routine) :
              LET k == a - 1
              IN  /\ k < chains.numRoutines /\ k < chains.h.nr
                  /\ \A x \in routine[a].writes :
                        CASE x.res = "out" ->
                                /\ x.lo \div N = x.hi \div N
                                /\ x.lo \div N \in loopChains(k, chains.numRoutines, chains.p)
                          [] x.res = "scratch" -> 64 * k <= x.lo /\ x.hi < 64 * k + 64
                          [] x.res = "hasher" -> x.lo = k /\ x.hi = k
                          [] x.res = "adrs" -> x.lo = k + 1 /\ x.hi = k + 1

\* two goroutines are both in the middle of their loops, each having hashed
WorkerIsolationWitness ==
    /\ pc = "chains" /\ Len(routine) = 2
    /\ \A a \in 1..2 :
          /\ routine[a].pc = "loop"
          /\ routine[a].chainIdx <= routine[a].lastChain
          /\ \E x \in routine[a].writes : x.res = "hasher"
          /\ \E x \in routine[a].writes : x.res = "out"
\* C24: when computeChains has returned and the primitive hands out to its
\* caller, every goroutine that was started has gone through all the chains of
\* its range and has left its loop: none is running or still to write.
JoinBeforeReturn ==
    (pc = "done" /\ call.op \in ChainsOps /\ call.ret.kind = "ok" /\ routine # <<>>) =>
        /\ Len(routine) = chains.numRoutines
        /\ \A i \in 1..Len(routine) :
              /\ routine[i].pc = "exited"
              /\ routine[i].chainIdx > routine[i].lastChain
              /\ \A j \in loopChains(i - 1, chains.numRoutines, chains.p) :
                    [res |-> "out", lo |-> j * N, hi |-> (j + 1) * N - 1] \in routine[i].writes

\* Sign has returned the signature two goroutines wrote, the second up to the
\* last chain
JoinBeforeReturnWitness ==
    /\ pc = "done" /\ call.op = "Sign" /\ call.ret.kind = "ok"
    /\ Len(routine) = 2 /\ done = 0
    /\ routine[2].chainIdx = chains.p.l
    /\ call.ret.val = output
\* C25: under fair scheduling, for every number of goroutines from 1 on, also
\* when some goroutines have an empty range, every goroutine that reaches its
\* send finds room in the channel whenever it gets there, every goroutine
\* eventually has sent, and computeChains eventually returns.
Termination ==
    /\ [](pc = "chains" =>
            \A i \in 1..Len(routine) :
                routine[i].pc = "loop" => done < doneCap(chains.numRoutines))
    /\ (pc = "chains")
          ~> (/\ pc = "done" /\ call.ret.kind = "ok"
              /\ \A i \in 1..Len(routine) : routine[i].pc = "exited")

\* eight goroutines on the 34 chains of W256: the last one has an empty range
\* and has sent, the others have not run yet
TerminationWitness ==
    /\ pc = "chains" /\ chains.numRoutines = 8 /\ chains.p.l = 34
    /\ routine[8].chainIdx > routine[8].lastChain
    /\ routine[8].writes = {}
    /\ routine[8].pc = "exited"
    /\ \A i \in 1..7 : routine[i].pc = "loop" /\ routine[i].writes = {}
\* the chain steps with the hash indexes first .. last, one after the other
\* in that order, on out: key = prf_pub(address with hash = i, key-and-mask =
\* 0), mask = prf_pub(address with hash = i, key-and-mask = 1),
\* out = F(key, out XOR mask)
RECURSIVE ChainSteps(_, _, _, _, _)
ChainSteps(h, out, adrs, first, last) ==
    IF first > last THEN out
    ELSE IF first = last
    THEN hashF(h, prfPubSeed(h, setKeyAndMask(setHash(adrs, first), 0)),
                  prfPubSeed(h, setKeyAndMask(setHash(adrs, first), 1)), out)
    ELSE LET mid == (first + last) \div 2
         IN  CHOOSE right \in {ChainSteps(h, left, adrs, mid + 1, last) :
                               left \in {ChainSteps(h, out, adrs, first, mid)}} : TRUE

ChainKernelWraps ==
    ~(/\ unit.op = "chain" /\ unit.start = 200 /\ unit.steps = 56
      /\ unit.out = unit.in)
\* C27: in every chain call of GenPublicKey, Sign and PublicKeyFromSig, for
\* every mode and message, start + steps <= w - 1: the 8-bit bound start+steps
\* does not wrap, w-1-lengths[j] does not go below 0, and the hash indexes of
\* the steps are in [0, w-2].
ChainBounds ==
    unit.op = "chainArgs" =>
        \A j \in 1..Len(unit.args) :
            LET start == unit.args[j].start
                steps == unit.args[j].steps
            IN  /\ start + steps <= unit.w - 1
                /\ uint8(start + steps) = start + steps
                /\ unit.lengths[j] <= unit.w - 1
                /\ unit.prim = "PublicKeyFromSig" => steps = unit.w - 1 - unit.lengths[j]
                /\ \A i \in start .. start + steps - 1 : 0 <= i /\ i <= unit.w - 2

\* PublicKeyFromSig in W256 on the message of bytes 255: the 32 message chains
\* start at 255 with no step left, the checksum chains at 0 with 255 steps
ChainBoundsWitness ==
    /\ unit.op = "chainArgs" /\ unit.prim = "PublicKeyFromSig" /\ unit.mode = W256
    /\ Len(unit.args) = 34
    /\ unit.args[1] = [start |-> 255, steps |-> 0]
    /\ unit.args[34] = [start |-> 0, steps |-> 255]
\* C28: after newHasher, whatever calls of prfPubSeed, prfPrivSeed and hashF
\* were made on whatever hasher contexts, the three precomputed digests hold
\* what newHasher absorbed, and the output of the last call is the hash of its
\* prefix, its seed and its arguments: it depends neither on the context used
\* nor on the calls made before.
PrecomputedReadOnly ==
    /\ heap.mem[heap.precompHashF] = <<"pad0">>
    /\ heap.mem[heap.precompPrfPubSeed] = <<"pad3", pubSeed>>
    /\ heap.precompPrfPrivSeed # 0 => heap.mem[heap.precompPrfPrivSeed] = <<"pad3", seed>>
    /\ (unit.op = "hashF") => unit.out = [t |-> "H", in |-> <<"pad0">> \o unit.in]
    /\ (unit.op = "prfPubSeed") => unit.out = [t |-> "H", in |-> <<"pad3", pubSeed>> \o unit.in]
    /\ (unit.op = "prfPrivSeed" /\ ~unit.panic) =>
          unit.out = [t |-> "H", in |-> <<"pad3", seed>> \o unit.in]

\* context 1 has just served hashF while context 0 still holds what a call of
\* prfPubSeed left in it, in a hasher that has the private seed
PrecomputedReadOnlyWitness ==
    /\ unit.op = "hashF" /\ unit.nr = 1 /\ unit.in = <<"key2", "block1">>
    /\ heap.precompPrfPrivSeed # 0
    /\ heap.mem[heap.hasherVals[1]] = <<"pad3", pubSeed, "adrs2">>
    /\ heap.mem[heap.hasherVals[2]] = <<"pad0", "key2", "block1">>
    /\ unit.out = [t |-> "H", in |-> <<"pad0", "key2", "block1">>]
\* C29: PublicKeyFromSig and Verify make their hasher without the private
\* seed and never call prfPrivSeed (so they do not panic on the context that
\* is not there); GenPublicKey and Sign call it, always on hasher context 0
\* and only while no goroutine has been started.
PrfPrivOnlyInExpandSeed ==
    pc # "start" =>
        /\ call.op \in {"PublicKeyFromSig", "Verify"} =>
              /\ heap.precompPrfPrivSeed = 0
              /\ \A c \in unit.log : c.f # "prfPrivSeed"
              /\ call.ret # Panic
        /\ \A c \in unit.log :
              c.f = "prfPrivSeed" =>
                  /\ c.op \in {"GenPublicKey", "Sign"}
                  /\ c.nr = 0
                  /\ c.started = 0
        /\ (pc \in {"computeChains", "done"} /\ call.op \in {"GenPublicKey", "Sign"}) =>
              /\ heap.precompPrfPrivSeed # 0
              /\ unit.i = chains.p.l
              /\ \E c \in unit.log : c.f = "prfPrivSeed"

\* PublicKeyFromSig has returned: its hasher has no private-seed digest, and
\* both its goroutines, started before either ran, have called prfPubSeed and
\* hashF on their contexts
PrfPrivOnlyInExpandSeedWitness ==
    /\ pc = "done"
    /\ call.op = "PublicKeyFromSig"
    /\ call.ret = Ok(<<>>)
    /\ heap.precompPrfPrivSeed = 0
    /\ chains.numRoutines = 2
    /\ unit.log = {[f |-> c, nr |-> nr, op |-> "PublicKeyFromSig", started |-> 2] :
                     c \in {"prfPubSeed", "hashF"}, nr \in {0, 1}}
\* C30: GenPublicKey, Sign, PublicKeyFromSig and Verify return the same with
\* two Opts whose addresses agree on layer, tree, type and OTS (bytes 0..19),
\* whatever the chain, hash and key-and-mask fields (bytes 20..31) hold.
AddressTailIgnored ==
    unit.op = "withAddress" =>
        ((/\ unit.adrs.layer = unit.adrsOther.layer
          /\ unit.adrs.tree = unit.adrsOther.tree
          /\ unit.adrs.type = unit.adrsOther.type
          /\ unit.adrs.ots = unit.adrsOther.ots)
            => (unit.ret.kind = "ok" /\ unit.ret = unit.retOther))

\* a W16 signature made with the three fields 4, 5, 6 verifies with them
\* 65536, 1, 1
AddressTailIgnoredWitness ==
    /\ unit.op = "withAddress"
    /\ unit.prim = "Verify"
    /\ unit.mode = W16
    /\ unit.adrs = [layer |-> 1, tree |-> 2, type |-> 0, ots |-> 3,
                    chain |-> 4, hash |-> 5, km |-> 6]
    /\ unit.adrsOther = [layer |-> 1, tree |-> 2, type |-> 0, ots |-> 3,
                         chain |-> 65536, hash |-> 1, km |-> 1]
    /\ unit.ret = Ok(TRUE)
    /\ unit.retOther = Ok(TRUE)
====
